---- MODULE Spec2Model ----
(***************************************************************************)
(* A model of self-serve, a local development HTTP server: the static      *)
(* responder with its path check, the file watcher with its debounce       *)
(* timer, the set of live WebSocket sessions with its broadcast, and the   *)
(* API dispatcher.                                                         *)
(*                                                                         *)
(* Strings are sequences of tokens.  A token is a run of characters that   *)
(* no operation of the program splits, so that startsWith, endsWith,       *)
(* includes, split and decodeURIComponent are computed on the tokens as    *)
(* the program computes them on the characters: "/w2/s" is                 *)
(* <<"/", "w", "2", "/", "s">>, and it starts with "/w".                   *)
(***************************************************************************)
EXTENDS Integers, Sequences, FiniteSets, TLC

VARIABLES
    \* static responder
    fsIndex,        \* what /w/d/index.html is: "none", "file", "link", "unreadable"
                    \* (a file of mode 000), or "locked" (a file in a /w/d of mode 000)
    req,            \* the target of the last static request
    resp,           \* the outcome of the last static request
    pair,           \* two requests answered side by side, and their responses
    \* file watcher
    wpc,            \* where startFileWatcher is
    watcher,        \* this.watcher: "null", "open" or "closed"
    aborted,        \* abortableController.signal.aborted
    listening,      \* the 'abort' listener of startFileWatcher is registered
    isShuttingDown, \* the local of startFileWatcher
    debounceTimer,  \* the local of startFileWatcher: 0 (null) or a timer id
    fsQueue,        \* filesystem events the watcher has not yet yielded
    timers,         \* the pending timers, each with the webFiles of its closure
    burst,          \* history: qualifying paths since the last timer expiry
    \* reload hub
    wsClients,      \* this.wsClients, in insertion order
    readyState,     \* readyState of each socket
    handled,        \* the events of each socket whose listener ran once for good
    lastSendFailed, \* history: the last send() on the socket threw
    lastB,          \* history: the last call of broadcastToClients
    nBroadcasts,    \* history: calls of broadcastToClients so far
    afterShutdown,  \* history: broadcastToClients has run after shutdown()
    shutdownCalled, \* history: shutdown() has been invoked
    \* API dispatcher
    apiDir,         \* the API directory: "ok", "missing" or "denied"
    apiExports,     \* what each file under the API directory exports
    apiReq,         \* the last API request
    apiResp,        \* the outcome of the last API request
    apiFound,       \* what the resolver that lists the directory found for it
    moduleMap,      \* the module map of the process: what import() has loaded
    apiModule,      \* what import() yielded for the last API request
    \* the last page generated: a listing or an HTML file
    dirEntries,     \* the entries Deno.readDir yielded for the listing
    listing,        \* the rows of the listing, in their order
    htmlContent,    \* the bytes of the HTML file given to the injection
    injected,       \* what the injection made of them; <<>> when it did not run
    served,         \* the file response, when the page is a file
    call,           \* the last call of a helper: its name, argument and result
    dom,            \* the stylesheet links of the page in the browser, and the
                    \* load and error listeners the client has registered
    \* the Go server that restarts
    server,         \* s.server: 0 (nil) or the number of the instance
    closed,         \* the instances on which Shutdown has been called
    restart,        \* s.restart: the senders that wait on the channel, in order
    signalChan,     \* signalChan holds a signal
    stdin,          \* the lines typed and not yet read
    typed,          \* history: the number of lines typed
    asked,          \* history: the instances that served when "r" was typed
    panicked,       \* a goroutine panicked: the process is gone
    mainPc,         \* where main is
    exitPc,         \* where handleGracefulExit is
    restartPc       \* where handleRestart is

goVars == <<server, closed, restart, signalChan, stdin, typed, asked, panicked,
            mainPc, exitPc, restartPc>>
pageVars == <<dirEntries, listing, htmlContent, injected, served, dom>>
staticVars == <<fsIndex, req, resp, pair, pageVars, call, goVars>>
watchVars == <<wpc, watcher, aborted, listening, isShuttingDown, debounceTimer,
               timers, fsQueue, burst>>
hubVars == <<wsClients, readyState, handled, lastSendFailed, lastB,
             nBroadcasts, afterShutdown, shutdownCalled>>
apiVars == <<apiDir, apiExports, apiReq, apiResp, apiFound, moduleMap, apiModule>>
nonGoVars == <<fsIndex, req, resp, pair, pageVars, call, watchVars, hubVars, apiVars>>
vars == <<staticVars, call, watchVars, hubVars, apiVars>>

----
(* Strings *)

NUL == "NUL"

StartsWith(s, p) == Len(p) <= Len(s) /\ SubSeq(s, 1, Len(p)) = p

EndsWith(s, p) == Len(p) <= Len(s) /\ SubSeq(s, Len(s) - Len(p) + 1, Len(s)) = p

Includes(s, p) == \E i \in 1..(Len(s) - Len(p) + 1) : SubSeq(s, i, i + Len(p) - 1) = p

IndexOf(s, c) ==
    IF \E i \in 1..Len(s) : s[i] = c
    THEN CHOOSE i \in 1..Len(s) : s[i] = c /\ \A j \in 1..(i - 1) : s[j] # c
    ELSE 0

RECURSIVE Split(_, _)
Split(s, c) ==
    LET i == IndexOf(s, c)
    IN  IF i = 0 THEN <<s>>
        ELSE <<SubSeq(s, 1, i - 1)>> \o Split(SubSeq(s, i + 1, Len(s)), c)

Last(q) == q[Len(q)]

toLowerCase(t) == CASE t = "CSS" -> "css" [] t = "HTML" -> "html" [] OTHER -> t

RECURSIVE Flatten(_)
Flatten(q) == IF q = <<>> THEN <<>> ELSE Head(q) \o Flatten(Tail(q))

----
(* decodeURIComponent, on the escapes the requests below use.  A "%" that
   no two hexadecimal digits follow makes it throw URIError. *)

HexPairs == {"2e", "2f", "00"}

DecodeByte(h) == CASE h = "2e" -> "." [] h = "2f" -> "/" [] h = "00" -> NUL

RECURSIVE decodeURIComponent(_)
decodeURIComponent(s) ==
    IF s = <<>> THEN [ok |-> TRUE, s |-> <<>>]
    ELSE IF Head(s) = "%"
         THEN IF Len(s) >= 2 /\ s[2] \in HexPairs
              THEN LET r == decodeURIComponent(SubSeq(s, 3, Len(s)))
                   IN  [ok |-> r.ok, s |-> <<DecodeByte(s[2])>> \o r.s]
              ELSE [ok |-> FALSE, s |-> <<>>]
         ELSE LET r == decodeURIComponent(Tail(s))
              IN  [ok |-> r.ok, s |-> <<Head(s)>> \o r.s]

----
(* The filesystem.  A canonical path is the sequence of its segments; the
   served directory is /w.  /w2 is a sibling whose name starts with the
   served directory's name, /x is a file outside, /w/l is a symbolic link
   to /x, and /w/d/index.html is absent, a file, or a symbolic link to /x;
   the file may be unreadable, or /w/d may refuse every lookup in it. *)

dir == <<"/", "w">>

SegW == <<"w">>
SegW2 == <<"w", "2">>
SegA == <<"a", ".", "html">>
SegD == <<"d">>
SegL == <<"l">>
SegS == <<"s">>
SegX == <<"x">>
SegIndex == <<"index", ".", "html">>

Absent == [kind |-> "absent", target |-> <<>>]
Dir == [kind |-> "dir", target |-> <<>>]
File == [kind |-> "file", target |-> <<>>]
Link(t) == [kind |-> "link", target |-> t]
Unreadable == [kind |-> "unreadable", target |-> <<>>]

FsNode(p, idx) ==
    CASE p = <<>> -> Dir
      [] p = <<SegW>> -> Dir
      [] p = <<SegW, SegA>> -> File
      [] p = <<SegW, SegL>> -> Link(<<SegX>>)
      [] p = <<SegW, SegD>> -> Dir
      [] p = <<SegW, SegD, SegIndex>> ->
            (CASE idx = "file" -> File
               [] idx = "link" -> Link(<<SegX>>)
               [] idx = "unreadable" -> Unreadable
               [] idx = "locked" -> File
               [] OTHER -> Absent)
      [] p = <<SegW2>> -> Dir
      [] p = <<SegW2, SegS>> -> File
      [] p = <<SegX>> -> File
      [] OTHER -> Absent

Ok(p) == [err |-> "", path |-> p]
Err(e) == [err |-> e, path |-> <<>>]

Parent(p) == IF p = <<>> THEN <<>> ELSE SubSeq(p, 1, Len(p) - 1)

(* A directory without search permission: a lookup of a name in it fails
   with EACCES. *)
Locked(p, idx) == p = <<SegW, SegD>> /\ idx = "locked"

(* The walk of realpath(3): "" and "." segments stay, ".." goes to the
   parent of the directory reached so far, a symbolic link is followed. *)
RECURSIVE Walk(_, _, _)
Walk(cur, segs, idx) ==
    IF segs = <<>> THEN Ok(cur)
    ELSE IF FsNode(cur, idx).kind # "dir" THEN Err("Other")
    ELSE LET seg == Head(segs)
         IN  IF seg = <<>> \/ seg = <<".">> THEN Walk(cur, Tail(segs), idx)
             ELSE IF seg = <<".", ".">> THEN Walk(Parent(cur), Tail(segs), idx)
             ELSE IF Locked(cur, idx) THEN Err("PermissionDenied")
             ELSE LET n == FsNode(Append(cur, seg), idx)
                  IN  IF n.kind = "absent" THEN Err("NotFound")
                      ELSE IF n.kind = "link" THEN Walk(n.target, Tail(segs), idx)
                      ELSE Walk(Append(cur, seg), Tail(segs), idx)

(* Deno.realPath: a path holding a NUL byte is refused with a TypeError. *)
realPath(path, idx) ==
    IF Includes(path, <<NUL>>) THEN Err("Other")
    ELSE Walk(<<>>, Split(path, "/"), idx)

(* The string of a canonical path. *)
PathString(p) ==
    IF p = <<>> THEN <<"/">>
    ELSE Flatten([i \in 1..Len(p) |-> <<"/">> \o p[i]])

(* Deno.stat follows symbolic links. *)
stat(path, idx) ==
    LET r == realPath(path, idx)
    IN  IF r.err # "" THEN [err |-> r.err, isDirectory |-> FALSE]
        ELSE [err |-> "", isDirectory |-> FsNode(r.path, idx).kind = "dir"]

(* Deno.readFile: the entry whose bytes are read. *)
readFile(path, idx) ==
    LET r == realPath(path, idx)
    IN  IF r.err # "" THEN r
        ELSE IF FsNode(r.path, idx).kind = "dir" THEN Err("Other")
        ELSE IF FsNode(r.path, idx).kind = "unreadable" THEN Err("PermissionDenied")
        ELSE r

----
(* MIME types and headers.  A MIME type is the sequence of the pieces of
   its string: "text/html; charset=UTF-8" is
   <<"text/", "html", "; charset=", "UTF-8">>. *)

(* typeByExtension of @std/media-types, which looks the extension up in
   lower case; <<>> stands for undefined.  An extension that holds a "/"
   is no extension. *)
typeByExtension(ext) ==
    LET e == [i \in 1..Len(ext) |-> toLowerCase(ext[i])]
    IN  CASE e = <<"html">> -> <<"text/", "html">>
          [] e = <<"css">> -> <<"text/", "css">>
          [] e = <<"txt">> -> <<"text/", "plain">>
          [] e = <<"js">> -> <<"text/", "javascript">>
          [] e = <<"json">> -> <<"application/", "json">>
          [] e = <<"png">> -> <<"image/", "png">>
          [] e = <<"svg">> -> <<"image/", "svg+xml">>
          [] OTHER -> <<>>

(* getCharset: the types that are text get UTF-8. *)
getCharset(mediaType) ==
    IF mediaType[1] = "text/" \/ mediaType = <<"application/", "json">>
    THEN <<"; charset=", "UTF-8">> ELSE <<>>

(* contentType of @std/media-types *)
contentType(ext) ==
    LET mediaType == typeByExtension(ext)
    IN  IF mediaType = <<>> THEN <<>> ELSE mediaType \o getCharset(mediaType)

(* serveFile: contentType(filePath.split('.').pop() || '')
   || 'application/octet-stream' *)
getMimeType(filePath) ==
    LET mimeType == contentType(Last(Split(filePath, ".")))
    IN  IF mimeType = <<>> THEN <<"application/", "octet-stream">> ELSE mimeType

(* The test of serveFile that sends a file through the injection *)
IsHtmlResponse(mimeType) == mimeType = <<"text/", "html", "; charset=", "utf-8">>

(* The test of serveFile that lets a file be cached *)
IsCacheable(mimeType) ==
    StartsWith(mimeType, <<"image/">>) \/ mimeType = <<"application/", "javascript">>

(* The headers serveFile gives the response *)
FileHeaders(filePath) ==
    LET mimeType == getMimeType(filePath)
    IN  IF IsHtmlResponse(mimeType)
        THEN { <<"Content-Type", mimeType>>,
               <<"Cache-Control", "no-cache, no-store, must-revalidate">>,
               <<"Pragma", "no-cache">>,
               <<"Expires", "0">> }
        ELSE { <<"Content-Type", mimeType>> }
             \cup (IF IsCacheable(mimeType)
                    THEN { <<"Cache-Control", "public, max-age=0, must-revalidate">> }
                    ELSE {})

HtmlPage == { <<"Content-Type", <<"text/", "html", "; charset=", "utf-8">> >> }

(* What the Response constructor gives a body that is a string *)
PlainText == { <<"Content-Type", <<"text/", "plain", ";charset=", "UTF-8">> >> }

(* The headers of each response serveStatic builds; arg is the path of a
   file response. *)
ResponseHeaders(kind, arg) ==
    CASE kind = "file" -> FileHeaders(arg)
      [] kind \in {"listing", "notfound"} -> HtmlPage
      [] OTHER -> PlainText

----
(* The static responder *)

Response(status, kind, entry, tag, arg) ==
    [status |-> status, kind |-> kind, entry |-> entry,
     body |-> [tag |-> tag, arg |-> arg], threw |-> "",
     headers |-> ResponseHeaders(kind, arg)]

Thrown(e) ==
    [status |-> 0, kind |-> "thrown", entry |-> <<>>,
     body |-> [tag |-> "", arg |-> <<>>], threw |-> e, headers |-> {}]

NoResponse ==
    [status |-> 0, kind |-> "none", entry |-> <<>>,
     body |-> [tag |-> "", arg |-> <<>>], threw |-> "", headers |-> {}]

Forbidden == Response(403, "forbidden", <<>>, "Forbidden", <<>>)

InternalServerError == Response(500, "error", <<>>, "Internal Server Error", <<>>)

generateNotFoundPage(path) == Response(404, "notfound", <<>>, "NotFoundPage", path)

(* A listing whose directory cannot be found *)
generateDirectoryListingPageMissing(pathName, resolvedPath, idx) == Err("NotFound")

(* The listing is built from the entries of resolvedPath. *)
generateDirectoryListingPage(pathName, resolvedPath, idx) ==
    LET r == realPath(resolvedPath, idx)
    IN  IF r.err # "" THEN Err(r.err)
        ELSE IF FsNode(r.path, idx).kind # "dir" THEN Err("Other")
        ELSE r

(* serveFile: the outcome is the file read, or the error readFile throws. *)
serveFile(filePath, idx) == readFile(filePath, idx)

(* The check of serveStatic on the two canonical paths and the joined path. *)
Blocked(realResolvedPath, realBasePath, resolvedPath) ==
    \/ ~StartsWith(realResolvedPath, realBasePath)
    \/ Includes(resolvedPath, <<NUL>>)

(* The catch of the second try block. *)
ServeError(e, decodedPathName) ==
    CASE e = "NotFound" -> generateNotFoundPage(decodedPathName)
      [] e = "PermissionDenied" -> Forbidden
      [] OTHER -> InternalServerError

(* The second try block: stat, then the index.html of a directory or its
   listing, or the file. *)
ServeResolved(decodedPathName, resolvedPath, idx) ==
    LET fileInfo == stat(resolvedPath, idx)
    IN  IF fileInfo.err # "" THEN ServeError(fileInfo.err, decodedPathName)
        ELSE IF fileInfo.isDirectory
        THEN LET indexPath == resolvedPath
                    \o (IF EndsWith(resolvedPath, <<"/">>) THEN <<>> ELSE <<"/">>)
                    \o SegIndex
                 st == stat(indexPath, idx)
             IN  IF st.err = ""
                 THEN LET f == serveFile(indexPath, idx)
                      IN  IF f.err # "" THEN ServeError(f.err, decodedPathName)
                          ELSE Response(200, "file", <<f.path>>, "File", indexPath)
                 ELSE IF st.err = "NotFound"
                 THEN LET l == generateDirectoryListingPage(decodedPathName, resolvedPath, idx)
                      IN  IF l.err # "" THEN ServeError(l.err, decodedPathName)
                          ELSE Response(200, "listing", <<l.path>>, "Listing", decodedPathName)
                 ELSE ServeError(st.err, decodedPathName)
        ELSE LET f == serveFile(resolvedPath, idx)
             IN  IF f.err # "" THEN ServeError(f.err, decodedPathName)
                 ELSE Response(200, "file", <<f.path>>, "File", resolvedPath)

(* A first catch that takes a missing entry for a suspicious one *)
ResolveErrorForbidden(e, decodedPathName) ==
    IF e = "NotFound" THEN Forbidden ELSE InternalServerError

(* The catch of the first try block, around the two Deno.realPath calls. *)
ResolveError(e, decodedPathName) ==
    IF e = "NotFound" THEN generateNotFoundPage(decodedPathName)
    ELSE InternalServerError

(* A responder whose 403 names the canonical path it refused *)
serveStaticRevealing(pathName, idx) ==
    LET dec == decodeURIComponent(pathName)
    IN  IF ~dec.ok THEN Thrown("URIError")
        ELSE
        LET resolvedPath == dir \o dec.s
            realBasePath == realPath(dir, idx)
            realResolvedPath == realPath(resolvedPath, idx)
        IN  IF realBasePath.err # "" \/ realResolvedPath.err # ""
            THEN IF "NotFound" = (IF realBasePath.err # "" THEN realBasePath.err
                                  ELSE realResolvedPath.err)
                 THEN generateNotFoundPage(dec.s)
                 ELSE InternalServerError
            ELSE IF Blocked(PathString(realResolvedPath.path),
                            PathString(realBasePath.path), resolvedPath)
            THEN Response(403, "forbidden", <<>>, "Forbidden",
                          PathString(realResolvedPath.path))
            ELSE ServeResolved(dec.s, resolvedPath, idx)

serveStatic(pathName, idx) ==
    LET dec == decodeURIComponent(pathName)
    IN  IF ~dec.ok THEN Thrown("URIError")
        ELSE
        LET decodedPathName == dec.s
            resolvedPath == dir \o decodedPathName
            realBasePath == realPath(dir, idx)
            realResolvedPath == realPath(resolvedPath, idx)
        IN  IF realBasePath.err # "" \/ realResolvedPath.err # ""
            THEN ResolveError(IF realBasePath.err # "" THEN realBasePath.err
                              ELSE realResolvedPath.err, decodedPathName)
            ELSE IF Blocked(PathString(realResolvedPath.path),
                            PathString(realBasePath.path), resolvedPath)
            THEN Forbidden
            ELSE ServeResolved(decodedPathName, resolvedPath, idx)

(* The segments the URL parser takes for ".." and for ".", in their plain
   and their percent-encoded spellings. *)
DoubleDot == { <<".", ".">>, <<"%", "2e", "%", "2e">>, <<".", "%", "2e">>, <<"%", "2e", ".">> }
SingleDot == { <<".">>, <<"%", "2e">> }

(* The path state of the URL parser: a double-dot segment removes the
   segment before it, a single-dot segment is dropped, and either one at
   the end of the path leaves an empty last segment. *)
RECURSIVE Shorten(_, _)
Shorten(segs, acc) ==
    IF segs = <<>> THEN acc
    ELSE LET seg == Head(segs)
             last == Len(segs) = 1
             end == IF last THEN << <<>> >> ELSE <<>>
         IN  IF seg \in DoubleDot THEN Shorten(Tail(segs), Parent(acc) \o end)
             ELSE IF seg \in SingleDot THEN Shorten(Tail(segs), acc \o end)
             ELSE Shorten(Tail(segs), Append(acc, seg))

(* new URL(req.url).pathname for a request target that starts with "/" *)
pathname(target) == PathString(Shorten(Split(Tail(target), "/"), <<>>))

(* The handler of serve for a request that is no WebSocket upgrade *)
serveHandler(target, idx) == serveStatic(pathname(target), idx)

(* The request targets: up to MaxSegs segments, each after "/" or "%2f". *)
MaxSegs == 3

ReqSegs ==
    { <<".", ".">>, <<"%", "2e", "%", "2e">>, SegW2, SegS, SegD, SegA, SegL,
      SegIndex, <<>>, <<"a", "%", "00">>, <<"%">> }

ReqSeps == { <<"/">>, <<"%", "2f">> }

RECURSIVE ReqTails(_)
ReqTails(n) ==
    IF n = 0 THEN { <<>> }
    ELSE LET shorter == ReqTails(n - 1)
         IN  { <<>> } \cup { sep \o seg \o t : sep \in ReqSeps, seg \in ReqSegs, t \in shorter }

ReqPaths == { <<"/">> \o seg \o t : seg \in ReqSegs, t \in ReqTails(MaxSegs - 1) }

IndexKinds == {"none", "file", "link", "unreadable", "locked"}

(* One static request, from the path to the response; the server is
   modelled one request at a time. *)
StaticRequest(p) ==
    /\ req = <<>>
    /\ req' = p
    /\ resp' = serveHandler(p, fsIndex)
    /\ UNCHANGED <<fsIndex, pair, pageVars, call, watchVars, hubVars, apiVars, goVars>>

StaticRequests == req = <<>> /\ \E p \in ReqPaths : StaticRequest(p)

(* The response is written and the request is over. *)
StaticDone ==
    /\ req # <<>>
    /\ req' = <<>>
    /\ resp' = NoResponse
    /\ UNCHANGED <<fsIndex, pair, pageVars, call, watchVars, hubVars, apiVars, goVars>>

(* /w/d/index.html is created, replaced or removed, between requests. *)
SetIndex(k) ==
    /\ req = <<>>
    /\ k # fsIndex
    /\ fsIndex' = k
    /\ UNCHANGED <<req, resp, pair, pageVars, call, watchVars, hubVars, apiVars, goVars>>

(* Two requests answered by the same server over the same files.  The
   first is one of three targets that resolve outside the served
   directory, the second any target of up to MaxSegs - 1 segments. *)
NoPair == [p |-> <<>>, q |-> <<>>, a |-> NoResponse, b |-> NoResponse]

Probes ==
    { <<"/", "l">>,
      <<"/", "d", "%", "2f", ".", ".", "%", "2f", ".", ".">>,
      <<"/", "d", "%", "2f", ".", ".", "%", "2f", ".", ".", "%", "2f", "x">> }

ShortPaths == { <<"/">> \o seg \o t : seg \in ReqSegs, t \in ReqTails(MaxSegs - 2) }

TwoRequests(p, q) ==
    /\ pair' = [p |-> p, q |-> q,
                a |-> serveHandler(p, fsIndex), b |-> serveHandler(q, fsIndex)]
    /\ UNCHANGED <<fsIndex, req, resp, pageVars, call, watchVars, hubVars, apiVars, goVars>>

PairDone ==
    /\ pair # NoPair
    /\ pair' = NoPair
    /\ UNCHANGED <<fsIndex, req, resp, pageVars, call, watchVars, hubVars, apiVars, goVars>>

----
(* The canonical served root, and what lies within it. *)
RootPath == <<SegW>>

Within(p) == Len(RootPath) <= Len(p) /\ SubSeq(p, 1, Len(RootPath)) = RootPath

----
(* The file watcher *)

MaxQueue == 1
MaxTimers == 2
MaxBroadcasts == 2

WatchedExtensions == {"html", "css", "js", "json", "svg", "png", "jpg", "jpeg"}

PHtml == <<"/", "a", ".", "html">>
PCss == <<"/", "s", ".", "css">>
PCss2 == <<"/", "t", ".", "css">>
PTxt == <<"/", "r", ".", "txt">>
PUpper == <<"/", "B", ".", "CSS">>

FsEvent(kind, paths) == [kind |-> kind, paths |-> paths]

FsEvents ==
    { FsEvent("modify", <<PHtml>>), FsEvent("modify", <<PCss>>),
      FsEvent("create", <<PCss2, PTxt>>), FsEvent("modify", <<PUpper>>),
      FsEvent("remove", <<PCss>>), FsEvent("modify", <<PTxt>>) }

(* A test that takes every path for a web file *)
IsWebFileAny(path) == TRUE

(* path.split('.').pop()?.toLowerCase(), and the test on it *)
IsWebFile(path) ==
    LET parts == Split(path, ".")
        last == Last(parts)
        ext == [i \in 1..Len(last) |-> toLowerCase(last[i])]
    IN  ext # <<>> /\ Len(ext) = 1 /\ ext[1] \in WatchedExtensions

(* A watcher that keeps every path of the event *)
FilterNothing(paths) == paths

RECURSIVE Filter(_)
Filter(paths) ==
    IF paths = <<>> THEN <<>>
    ELSE (IF IsWebFile(Head(paths)) THEN <<Head(paths)>> ELSE <<>>) \o Filter(Tail(paths))

Range(q) == { q[i] : i \in 1..Len(q) }

(* setTimeout: an id that no pending timer has *)
FreshId(ts) == CHOOSE n \in 1..(MaxTimers + 1) :
                  /\ \A t \in ts : t.id # n
                  /\ \A m \in 1..(n - 1) : \E t \in ts : t.id = m

clearTimeout(ts, id) == { t \in ts : t.id # id }

(* A watcher that arms a timer and lets the one before it run *)
RearmKeeping(ts, id, webFiles) ==
    ts \cup { [id |-> FreshId(ts), files |-> webFiles] }

(* The timers after a qualifying event: the armed one is cleared, a new
   one is armed. *)
Rearm(ts, id, webFiles) ==
    LET cleared == IF id # 0 THEN clearTimeout(ts, id) ELSE ts
    IN  cleared \cup { [id |-> FreshId(cleared), files |-> webFiles] }

(* The files the timer's callback hands to onFilesChanged: the webFiles of
   the event that armed it. *)
TimerFiles(t) == t.files

----
(* The reload hub *)

MaxSessions == 2

Sessions == 1..MaxSessions

(* Set.prototype.add and delete, on the insertion order *)
SetAdd(q, x) == IF x \in Range(q) THEN q ELSE Append(q, x)

(* A delete that leaves the member in the set *)
SetDeleteNothing(q, x) == q

RECURSIVE SetDelete(_, _)
SetDelete(q, x) ==
    IF q = <<>> THEN <<>>
    ELSE IF Head(q) = x THEN Tail(q)
    ELSE <<Head(q)>> \o SetDelete(Tail(q), x)

(* files.every(file => file.endsWith('.css')) *)
cssOnly(files) == \A i \in 1..Len(files) : EndsWith(files[i], <<".", "css">>)

(* The message onFilesChanged hands to broadcastToClients. *)
onFilesChanged(files) ==
    IF cssOnly(files) THEN [type |-> "css-change", files |-> files]
    ELSE [type |-> "full-reload", files |-> files]

(* A broadcast that does not look at readyState *)
SendsToAny(c, rs) == TRUE

(* The sessions on which broadcastToClients calls send. *)
SendsTo(c, rs) == rs[c] = "open"

(* A loop by index over the live members, which a delete shifts: the
   member after a deleted one is passed over. *)
RECURSIVE BroadcastLoopByIndex(_, _, _, _, _)
BroadcastLoopByIndex(order, i, rs, fails, b) ==
    IF i > Len(b.clients) THEN b
    ELSE LET client == b.clients[i]
         IN  IF rs[client] = "open"
             THEN IF client \in fails
                  THEN BroadcastLoopByIndex(order, i + 1, rs, fails,
                          [b EXCEPT !.calls = Append(@, client),
                                    !.threw = @ \cup {client},
                                    !.clients = SetDelete(@, client)])
                  ELSE BroadcastLoopByIndex(order, i + 1, rs, fails,
                          [b EXCEPT !.calls = Append(@, client)])
             ELSE BroadcastLoopByIndex(order, i + 1, rs, fails,
                          [b EXCEPT !.clients = SetDelete(@, client)])

(* The loop of broadcastToClients over the set, from its i-th member on.
   A Set's iterator visits every member that is in the set when it is
   reached; deleting the member being visited skips none.  b holds the
   set, the send calls made, and the sessions whose send threw. *)
RECURSIVE BroadcastLoop(_, _, _, _, _)
BroadcastLoop(order, i, rs, fails, b) ==
    IF i > Len(order) THEN b
    ELSE LET client == order[i]
         IN  IF client \notin Range(b.clients)
             THEN BroadcastLoop(order, i + 1, rs, fails, b)
             ELSE IF SendsTo(client, rs)
             THEN IF client \in fails
                  THEN BroadcastLoop(order, i + 1, rs, fails,
                          [b EXCEPT !.calls = Append(@, client),
                                    !.threw = @ \cup {client},
                                    !.clients = SetDelete(@, client)])
                  ELSE BroadcastLoop(order, i + 1, rs, fails,
                          [b EXCEPT !.calls = Append(@, client)])
             ELSE BroadcastLoop(order, i + 1, rs, fails,
                          [b EXCEPT !.clients = SetDelete(@, client)])

broadcastToClients(clients, rs, fails) ==
    BroadcastLoop(clients, 1, rs, fails,
                  [clients |-> clients, calls |-> <<>>, threw |-> {}])

NoBroadcast ==
    [message |-> [type |-> "", files |-> <<>>], calls |-> <<>>, threw |-> {},
     burst |-> {}]

----
(* The actions of the watcher and of the hub *)

(* Deno.upgradeWebSocket in handleWebSocketUpgrade: the socket exists and
   has its three listeners; the server accepts no request once aborted. *)
Upgrade(s) ==
    /\ readyState[s] = "none"
    /\ ~aborted
    /\ readyState' = [readyState EXCEPT ![s] = "connecting"]
    /\ UNCHANGED <<wsClients, handled, lastSendFailed, lastB, nBroadcasts,
                   afterShutdown, shutdownCalled, staticVars, watchVars, apiVars>>

(* The 'open' listener *)
OpenEvent(s) ==
    /\ readyState[s] = "connecting"
    /\ readyState' = [readyState EXCEPT ![s] = "open"]
    /\ wsClients' = SetAdd(wsClients, s)
    /\ UNCHANGED <<handled, lastSendFailed, lastB, nBroadcasts, afterShutdown,
                   shutdownCalled, staticVars, watchVars, apiVars>>

(* The peer starts the closing handshake. *)
PeerClosing(s) ==
    /\ readyState[s] = "open"
    /\ readyState' = [readyState EXCEPT ![s] = "closing"]
    /\ UNCHANGED <<wsClients, handled, lastSendFailed, lastB, nBroadcasts,
                   afterShutdown, shutdownCalled, staticVars, watchVars, apiVars>>

(* The connection is gone; the 'close' event is queued. *)
ConnectionClosed(s) ==
    /\ readyState[s] \in {"connecting", "open", "closing"}
    /\ readyState' = [readyState EXCEPT ![s] = "closed"]
    /\ UNCHANGED <<wsClients, handled, lastSendFailed, lastB, nBroadcasts,
                   afterShutdown, shutdownCalled, staticVars, watchVars, apiVars>>

(* A 'close' listener that only logs *)
CloseEventLogs(s) ==
    /\ readyState[s] = "closed"
    /\ "close" \notin handled[s]
    /\ handled' = [handled EXCEPT ![s] = @ \cup {"close"}]
    /\ UNCHANGED <<wsClients, readyState, lastSendFailed, lastB, nBroadcasts,
                   afterShutdown, shutdownCalled, staticVars, watchVars, apiVars>>

(* The 'close' listener *)
CloseEvent(s) ==
    /\ readyState[s] = "closed"
    /\ "close" \notin handled[s]
    /\ wsClients' = SetDelete(wsClients, s)
    /\ handled' = [handled EXCEPT ![s] = @ \cup {"close"}]
    /\ UNCHANGED <<readyState, lastSendFailed, lastB, nBroadcasts, afterShutdown,
                   shutdownCalled, staticVars, watchVars, apiVars>>

(* The 'error' listener; the socket is closed when the event is fired. *)
ErrorEvent(s) ==
    /\ readyState[s] \in {"connecting", "open", "closing"}
    /\ readyState' = [readyState EXCEPT ![s] = "closed"]
    /\ wsClients' = SetDelete(wsClients, s)
    /\ UNCHANGED <<handled, lastSendFailed, lastB, nBroadcasts, afterShutdown,
                   shutdownCalled, staticVars, watchVars, apiVars>>

(* A startFileWatcher whose catch hands the error on to its caller *)
StatDoneRethrows(outcome) ==
    /\ wpc = "start"
    /\ IF outcome = "dir"
       THEN /\ wpc' = "watching"
            /\ watcher' = "open"
            /\ listening' = TRUE
       ELSE /\ wpc' = (IF outcome = "notdir" THEN "ended" ELSE "thrown")
            /\ UNCHANGED <<watcher, listening>>
    /\ UNCHANGED <<aborted, isShuttingDown, debounceTimer, timers, fsQueue, burst,
                   staticVars, hubVars, apiVars, goVars>>

(* startFileWatcher after its await of Deno.stat(this.dir): for a
   directory the watcher is created, the 'abort' listener registered and
   the loop entered; otherwise the function returns or logs the error. *)
StatDone(outcome) ==
    /\ wpc = "start"
    /\ IF outcome = "dir"
       THEN /\ wpc' = "watching"
            /\ watcher' = "open"
            /\ listening' = TRUE
       ELSE /\ wpc' = (IF outcome = "notdir" THEN "ended" ELSE "failed")
            /\ UNCHANGED <<watcher, listening>>
    /\ UNCHANGED <<aborted, isShuttingDown, debounceTimer, timers, fsQueue, burst,
                   staticVars, hubVars, apiVars, goVars>>

(* The operating system reports a change under the served directory. *)
Deliver(e) ==
    /\ watcher = "open"
    /\ Len(fsQueue) < MaxQueue
    /\ fsQueue' = Append(fsQueue, e)
    /\ UNCHANGED <<wpc, watcher, aborted, listening, isShuttingDown, debounceTimer,
                   timers, burst, staticVars, hubVars, apiVars, goVars>>

(* One turn of the for-await loop of startFileWatcher *)
WatcherYield ==
    /\ wpc = "watching"
    /\ fsQueue # <<>>
    /\ fsQueue' = Tail(fsQueue)
    /\ LET event == Head(fsQueue)
           webFiles == Filter(event.paths)
       IN  IF isShuttingDown
           THEN /\ wpc' = "ended"
                /\ UNCHANGED <<debounceTimer, timers, burst>>
           ELSE IF event.kind \in {"modify", "create"} /\ Len(webFiles) > 0
           THEN /\ timers' = Rearm(timers, debounceTimer, webFiles)
                /\ debounceTimer' = FreshId(IF debounceTimer # 0
                                            THEN clearTimeout(timers, debounceTimer)
                                            ELSE timers)
                /\ burst' = burst \cup Range(webFiles)
                /\ UNCHANGED wpc
           ELSE UNCHANGED <<wpc, debounceTimer, timers, burst>>
    /\ UNCHANGED <<watcher, aborted, listening, isShuttingDown, staticVars, hubVars,
                   apiVars>>

(* The iterator of a closed watcher is done: the loop ends. *)
WatcherDone ==
    /\ wpc = "watching"
    /\ watcher = "closed"
    /\ wpc' = "ended"
    /\ fsQueue' = <<>>
    /\ UNCHANGED <<watcher, aborted, listening, isShuttingDown, debounceTimer, timers,
                   burst, staticVars, hubVars, apiVars, goVars>>

(* A pending timer expires: its callback calls onFilesChanged, which calls
   broadcastToClients; send throws on the sessions of fails. *)
TimerFire(t, fails) ==
    /\ t \in timers
    /\ nBroadcasts < MaxBroadcasts
    /\ timers' = timers \ {t}
    /\ burst' = {}
    /\ LET message == onFilesChanged(TimerFiles(t))
           b == broadcastToClients(wsClients, readyState, fails)
       IN  /\ wsClients' = b.clients
           /\ lastSendFailed' =
                 [s \in Sessions |-> IF s \in Range(b.calls) THEN s \in b.threw
                                     ELSE lastSendFailed[s]]
           /\ lastB' = [message |-> message, calls |-> b.calls, threw |-> b.threw,
                        burst |-> burst]
    /\ nBroadcasts' = nBroadcasts + 1
    /\ afterShutdown' = (afterShutdown \/ shutdownCalled)
    /\ UNCHANGED <<readyState, handled, shutdownCalled, wpc, watcher, aborted,
                   listening, isShuttingDown, debounceTimer, fsQueue, staticVars,
                   apiVars>>

(* shutdown(): open sessions are closed, the set is cleared, the watcher
   (when there is one) is closed, and the controller is aborted, which
   runs the 'abort' listener when it is registered and the signal was not
   aborted before. *)
Shutdown ==
    /\ readyState' = [s \in Sessions |->
                        IF s \in Range(wsClients) /\ readyState[s] = "open"
                        THEN "closing" ELSE readyState[s]]
    /\ wsClients' = <<>>
    /\ watcher' = (IF watcher = "null" THEN "null" ELSE "closed")
    /\ aborted' = TRUE
    /\ IF listening /\ ~aborted
       THEN /\ isShuttingDown' = TRUE
            /\ timers' = (IF debounceTimer # 0 THEN clearTimeout(timers, debounceTimer)
                          ELSE timers)
       ELSE UNCHANGED <<isShuttingDown, timers>>
    /\ shutdownCalled' = TRUE
    /\ UNCHANGED <<handled, lastSendFailed, lastB, nBroadcasts, afterShutdown, wpc,
                   listening, debounceTimer, fsQueue, burst, staticVars, apiVars>>

----
(* The API dispatcher *)

HelloTs == <<"hello", ".", "ts">>
HelloJs == <<"hello", ".", "js">>
ProfileTs == <<"users", "/", "profile", ".", "ts">>
ProfileJs == <<"profile", ".", "js">>
NestedJs == <<"users", "/", "profile", ".", "js">>

ApiFileNames == {HelloTs, HelloJs, ProfileTs, ProfileJs, NestedJs}

(* What a handler file holds: a module that exports GET only; one whose
   GET throws and that exports POST and PATCH; one whose GET is no
   function; one whose import throws. *)
Modules == {"get", "getThrows", "getValue", "broken"}

Export(module, name) ==
    CASE module = "get" /\ name = "GET" -> "returns"
      [] module = "getThrows" /\ name = "GET" -> "throws"
      [] module = "getThrows" /\ name \in {"POST", "PATCH"} -> "returns"
      [] module = "getValue" /\ name = "GET" -> "value"
      [] OTHER -> "undefined"

Methods == {"GET", "POST", "patch"}

toUpperCase(m) == CASE m = "patch" -> "PATCH" [] m = "get" -> "GET" [] OTHER -> m

Endpoints == { <<"hello">>, <<"users", "/", "profile">>, <<"profile">>, <<"nope">> }

ApiFiles(exports) == { f \in ApiFileNames : exports[f] # "absent" }

(* A segment of a glob against a name: "*" stands for any run of tokens. *)
RECURSIVE SegMatch(_, _)
SegMatch(pat, name) ==
    IF pat = <<>> THEN name = <<>>
    ELSE IF Head(pat) = "*"
         THEN \E k \in 0..Len(name) : SegMatch(Tail(pat), SubSeq(name, k + 1, Len(name)))
         ELSE name # <<>> /\ Head(name) = Head(pat) /\ SegMatch(Tail(pat), Tail(name))

(* A lookup in the root alone, by the last segment of the glob *)
expandGlobTopLevel(glob, files) ==
    { f \in files : Split(f, "/") = <<Last(Split(glob, "/"))>> }

(* A lookup by file name alone, at any depth *)
expandGlobByName(glob, files) ==
    { f \in files : SegMatch(Last(Split(glob, "/")), Last(Split(f, "/"))) }

(* expandGlob(glob, { root }): the entries under root whose relative path
   matches the glob segment by segment, in the order of the walk. *)
expandGlob(glob, files) ==
    LET gs == Split(glob, "/")
    IN  { f \in files :
            LET fs == Split(f, "/")
            IN  Len(fs) = Len(gs) /\ \A i \in 1..Len(gs) : SegMatch(gs[i], fs[i]) }

Found(f) == [err |-> "", path |-> <<f>>]
Undefined == [err |-> "", path |-> <<>>]

(* A resolver that looks for the .js file first *)
resolveJsFirst(dirState, files, endpoint) ==
    LET ts == expandGlob(endpoint \o <<".", "ts">>, files)
        js == expandGlob(endpoint \o <<".", "js">>, files)
    IN  IF dirState = "denied" THEN { Err("PermissionDenied") }
        ELSE IF dirState = "missing" THEN { Undefined }
        ELSE IF js # {} THEN { Found(f) : f \in js }
        ELSE IF ts # {} THEN { Found(f) : f \in ts }
        ELSE { Undefined }

(* Deno.readDir(apiDirPath): the names of the entries of the directory *)
readDir(files) == { Split(f, "/")[1] : f \in files }

(* The orders in which the entries can be yielded *)
Orders(names) == { q \in [1..Cardinality(names) -> names] : Range(q) = names }

(* extname(name): from the last "." on, or nothing *)
extname(name) ==
    LET parts == Split(name, ".")
    IN  IF Len(parts) < 2 THEN <<>> ELSE <<".">> \o Last(parts)

(* The loop of the resolver that lists the directory: a .ts entry whose
   name up to its first "." is apiPath ends the loop; a .js one is kept
   when nothing was found before it. *)
RECURSIVE ReadDirLoop(_, _, _, _)
ReadDirLoop(order, i, apiPath, foundFilePath) ==
    IF i > Len(order) THEN foundFilePath
    ELSE LET name == order[i]
             ext == extname(name)
         IN  IF Split(name, ".")[1] = apiPath
             THEN IF ext = <<".", "ts">> THEN Found(name)
                  ELSE IF ext = <<".", "js">> /\ foundFilePath = Undefined
                  THEN ReadDirLoop(order, i + 1, apiPath, Found(name))
                  ELSE ReadDirLoop(order, i + 1, apiPath, foundFilePath)
             ELSE ReadDirLoop(order, i + 1, apiPath, foundFilePath)

(* resolveApiFilePath as it lists the directory with Deno.readDir, for
   the entries yielded in `order` *)
resolveApiFilePathReadDir(dirState, order, apiPath) ==
    IF dirState = "denied" THEN Err("PermissionDenied")
    ELSE IF dirState = "missing" THEN Undefined
    ELSE ReadDirLoop(order, 1, apiPath, Undefined)

(* resolveApiFilePath: the outcomes it can have, one for each entry the
   glob can yield first.  A missing root is no match; any other error of
   the walk is thrown again. *)
resolveApiFilePath(dirState, files, endpoint) ==
    LET ts == expandGlob(endpoint \o <<".", "ts">>, files)
        js == expandGlob(endpoint \o <<".", "js">>, files)
    IN  IF dirState = "denied" THEN { Err("PermissionDenied") }
        ELSE IF dirState = "missing" THEN { Undefined }
        ELSE IF ts # {} THEN { Found(f) : f \in ts }
        ELSE IF js # {} THEN { Found(f) : f \in js }
        ELSE { Undefined }

(* file is the module whose import was tried, invoked the handler called. *)
ApiResponse(status, tag, arg, file, invoked) ==
    [status |-> status, body |-> [tag |-> tag, arg |-> arg], threw |-> "",
     file |-> file, invoked |-> invoked]

ApiThrown(e, file, invoked) ==
    [status |-> 0, body |-> [tag |-> "", arg |-> <<>>], threw |-> e,
     file |-> file, invoked |-> invoked]

NoApiResponse == ApiResponse(0, "none", <<>>, <<>>, <<>>)

NoApiRequest == [endpoint |-> <<>>, method |-> ""]

(* The Response a handler returns: its own, told by its file and name. *)
HandlerResponse(file, name) == ApiResponse(200, "handler", file \o <<":", name>>, <<file>>, <<name>>)

(* A lookup under the method as the request carries it *)
HandlerNameAsSent(reqMethod) == reqMethod

(* The name under which the handler is looked up. *)
HandlerName(reqMethod) == toUpperCase(reqMethod)

(* import(specifier): a specifier the module map holds yields the module
   loaded for it before, whatever the file holds now; one it does not hold
   is loaded from the file.  "broken" stands for an import that throws. *)
import(file, exports, map) ==
    IF map[file] # "none" THEN map[file] ELSE exports[file]

(* The module map after the import: a module that loaded stays for the
   life of the process; whether a failure is kept or the load is tried
   again next time is up to the runtime. *)
Loaded(file, module, map) ==
    IF module # "broken" THEN { [map EXCEPT ![file] = module] }
    ELSE { map, [map EXCEPT ![file] = "broken"] }

(* handleServerFunction, once the path is resolved to `resolved` and the
   import of the file has yielded `module` *)
handleServerFunction(resolved, module, endpoint, reqMethod) ==
    IF resolved.err # "" THEN ApiThrown(resolved.err, <<>>, <<>>)
    ELSE IF resolved.path = <<>>
    THEN ApiResponse(404, "API endpoint not found: ", endpoint, <<>>, <<>>)
    ELSE LET file == resolved.path[1]
             method == HandlerName(reqMethod)
             handler == Export(module, method)
         IN  IF module = "broken"
             THEN ApiResponse(500, "Internal Server Error", <<>>, <<file>>, <<>>)
             ELSE IF handler \in {"returns", "throws"}
             THEN IF handler = "returns" THEN HandlerResponse(file, method)
                  ELSE ApiThrown("HandlerError", <<file>>, <<method>>)
             ELSE ApiResponse(405, "Method not allowed for ", <<method, " ">> \o endpoint,
                              <<file>>, <<>>)

(* One API request; the server is modelled one request at a time. *)
ApiRequest(endpoint, reqMethod) ==
    /\ apiReq = NoApiRequest
    /\ apiReq' = [endpoint |-> endpoint, method |-> reqMethod]
    /\ \E resolved \in resolveApiFilePath(apiDir, ApiFiles(apiExports), endpoint) :
          IF resolved.err = "" /\ resolved.path # <<>>
          THEN LET file == resolved.path[1]
                   module == import(file, apiExports, moduleMap)
               IN  /\ apiModule' = module
                   /\ moduleMap' \in Loaded(file, module, moduleMap)
                   /\ apiResp' = handleServerFunction(resolved, module, endpoint, reqMethod)
          ELSE /\ apiResp' = handleServerFunction(resolved, "none", endpoint, reqMethod)
               /\ apiModule' = "none"
               /\ UNCHANGED moduleMap
    /\ \E order \in Orders(readDir(ApiFiles(apiExports))) :
          apiFound' = resolveApiFilePathReadDir(apiDir, order, endpoint)
    /\ UNCHANGED <<apiDir, apiExports, staticVars, watchVars, hubVars>>

ApiRequests ==
    apiReq = NoApiRequest /\ \E e \in Endpoints : \E m \in Methods : ApiRequest(e, m)

(* The response is written and the request is over. *)
ApiDone ==
    /\ apiReq # NoApiRequest
    /\ apiReq' = NoApiRequest
    /\ apiResp' = NoApiResponse
    /\ apiFound' = Undefined
    /\ apiModule' = "none"
    /\ UNCHANGED <<apiDir, apiExports, moduleMap, staticVars, watchVars, hubVars>>

(* What is written to each file: hello.ts is given every kind of module,
   the other files the plain one. *)
Contents(f) == IF f = HelloTs THEN Modules ELSE {"get"}

(* A handler file is written, between requests. *)
WriteApiFile(f, module) ==
    /\ apiReq = NoApiRequest
    /\ apiDir # "missing"
    /\ apiExports[f] # module
    /\ apiExports' = [apiExports EXCEPT ![f] = module]
    /\ UNCHANGED <<apiDir, apiReq, apiResp, apiFound, moduleMap, apiModule, staticVars,
                   watchVars, hubVars>>

(* A handler file is removed. *)
RemoveApiFile(f) ==
    /\ apiReq = NoApiRequest
    /\ apiExports[f] # "absent"
    /\ apiExports' = [apiExports EXCEPT ![f] = "absent"]
    /\ UNCHANGED <<apiDir, apiReq, apiResp, apiFound, moduleMap, apiModule, staticVars,
                   watchVars, hubVars>>

(* The API directory is created, removed with what it holds, or made
   unreadable. *)
SetApiDir(state) ==
    /\ apiReq = NoApiRequest
    /\ state # apiDir
    /\ apiDir' = state
    /\ apiExports' = (IF state = "missing" THEN [f \in ApiFileNames |-> "absent"]
                      ELSE apiExports)
    /\ UNCHANGED <<apiReq, apiResp, apiFound, moduleMap, apiModule, staticVars,
                   watchVars, hubVars>>

----
(* The pages are modelled one at a time. *)
NoFile == [path |-> <<>>, content |-> <<>>, body |-> <<>>, headers |-> {}]

PageIdle ==
    /\ dirEntries = <<>> /\ listing = <<>> /\ htmlContent = <<>> /\ injected = <<>>
    /\ served = NoFile

(* The page is written to the response. *)
PageDone ==
    /\ ~PageIdle
    /\ dirEntries' = <<>>
    /\ listing' = <<>>
    /\ htmlContent' = <<>>
    /\ injected' = <<>>
    /\ served' = NoFile
    /\ UNCHANGED <<dom, fsIndex, req, resp, pair, call, watchVars, hubVars, apiVars, goVars>>

----
(* The directory listing *)

MaxEntries == 3

(* Entry names, as strings of characters *)
ListNames == { <<"a">>, <<"b">>, <<"B">>, <<"Z">>, <<"a", "b">> }

(* The UTF-16 code unit of a character *)
CodeUnit(c) == CASE c = "B" -> 66 [] c = "Z" -> 90 [] c = "a" -> 97 [] c = "b" -> 98

(* The letter of a character, which a collator weighs first, and its case,
   which it weighs after the letters of the whole string *)
Letter(c) == CASE c = "a" -> 1 [] c \in {"b", "B"} -> 2 [] c = "Z" -> 26
Upper(c) == IF c \in {"B", "Z"} THEN 1 ELSE 0

(* Two sequences of numbers compared from their first members on *)
RECURSIVE Lex(_, _)
Lex(x, y) ==
    IF x = <<>> /\ y = <<>> THEN 0
    ELSE IF x = <<>> THEN -1
    ELSE IF y = <<>> THEN 1
    ELSE IF Head(x) < Head(y) THEN -1
    ELSE IF Head(x) > Head(y) THEN 1
    ELSE Lex(Tail(x), Tail(y))

(* Comparison by code units *)
Ordinal(x, y) ==
    Lex([i \in 1..Len(x) |-> CodeUnit(x[i])], [i \in 1..Len(y) |-> CodeUnit(y[i])])

(* String.prototype.localeCompare: the collation of the locale, which
   orders by the letters and, between strings of the same letters, puts the
   lower case first *)
localeCompare(x, y) ==
    LET lx == [i \in 1..Len(x) |-> Letter(x[i])]
        ly == [i \in 1..Len(y) |-> Letter(y[i])]
    IN  IF lx # ly THEN Lex(lx, ly)
        ELSE Lex([i \in 1..Len(x) |-> Upper(x[i])], [i \in 1..Len(y) |-> Upper(y[i])])

(* The callback of entries.sort *)
compareEntries(a, b) ==
    IF a.isDirectory /\ ~b.isDirectory THEN -1
    ELSE IF ~a.isDirectory /\ b.isDirectory THEN 1
    ELSE localeCompare(a.name, b.name)

(* Array.prototype.sort, which is stable: e goes after the members that
   are not greater than it. *)
RECURSIVE Insert(_, _)
Insert(sorted, e) ==
    IF sorted = <<>> THEN <<e>>
    ELSE IF compareEntries(Head(sorted), e) <= 0
         THEN <<Head(sorted)>> \o Insert(Tail(sorted), e)
         ELSE <<e>> \o sorted

RECURSIVE sort(_)
sort(entries) ==
    IF entries = <<>> THEN <<>>
    ELSE Insert(sort(SubSeq(entries, 1, Len(entries) - 1)), entries[Len(entries)])

(* fileList: one row for each sorted entry, a directory's with a slash *)
fileList(entries) ==
    LET sorted == sort(entries)
    IN  [i \in 1..Len(sorted) |->
            [name |-> sorted[i].name, slash |-> sorted[i].isDirectory]]

(* What Deno.readDir can yield: entries of distinct names, in any order *)
DirEntry == [name : ListNames, isDirectory : BOOLEAN]

ReadDirs ==
    UNION { { q \in [1..n -> DirEntry] :
                \A i, j \in 1..n : i # j => q[i].name # q[j].name } : n \in 0..MaxEntries }

(* The listing has the ".." row: pathName !== '/' *)
ParentLink(pathName) == pathName # <<"/">>

(* generateDirectoryListingPage on the entries readDir yields *)
ListDirectory(entries) ==
    /\ dirEntries' = entries
    /\ listing' = fileList(entries)
    /\ htmlContent' = <<>>
    /\ injected' = <<>>
    /\ UNCHANGED <<served, dom, fsIndex, req, resp, pair, call, watchVars, hubVars, apiVars, goVars>>

----
(* The injection of the client script.  A document is a sequence of
   pieces: a run of text, a closing tag in one of its spellings, a byte
   order mark, a byte that is no UTF-8. *)

MaxPieces == 3

Pieces == { "text", "</body>", "</BODY>", "</html>", "</HTML>", "BOM", "0xFF" }

(* new TextDecoder().decode(content): a byte order mark at the start is
   left out, a byte that is no UTF-8 becomes U+FFFD. *)
decode(content) ==
    LET rest == IF content # <<>> /\ Head(content) = "BOM" THEN Tail(content)
                ELSE content
    IN  [i \in 1..Len(rest) |-> IF rest[i] = "0xFF" THEN "U+FFFD" ELSE rest[i]]

(* What the regular expressions /<\/body>/i and /<\/html>/i match *)
MatchesIgnoringCase(piece, tag) ==
    \/ piece = tag
    \/ tag = "</body>" /\ piece = "</BODY>"
    \/ tag = "</html>" /\ piece = "</HTML>"

(* html.replace(regex, replacement): the first match is replaced. *)
RECURSIVE replace(_, _, _)
replace(html, tag, replacement) ==
    IF html = <<>> THEN <<>>
    ELSE IF MatchesIgnoringCase(Head(html), tag) THEN replacement \o Tail(html)
    ELSE <<Head(html)>> \o replace(Tail(html), tag, replacement)

hotReloadScript == "<script>"

injectHotReloadScript(content) ==
    LET html == decode(content)
    IN  IF "</body>" \in Range(html)
        THEN replace(html, "</body>", <<hotReloadScript, "\n", "</body>">>)
        ELSE IF "</html>" \in Range(html)
        THEN replace(html, "</html>", <<hotReloadScript, "\n", "</html>">>)
        ELSE Append(html, hotReloadScript)

HtmlContents == UNION { [1..n -> Pieces] : n \in 0..MaxPieces }

(* The injection into one HTML file *)
InjectScript(content) ==
    /\ htmlContent' = content
    /\ injected' = injectHotReloadScript(content)
    /\ dirEntries' = <<>>
    /\ listing' = <<>>
    /\ UNCHANGED <<served, dom, fsIndex, req, resp, pair, call, watchVars, hubVars, apiVars, goVars>>

----
(* The file response *)

(* The paths of the files served, one for each kind of name *)
FilePaths ==
    { <<"/", "w", "/", "a", ".", "html">>, <<"/", "w", "/", "A", ".", "HTML">>,
      <<"/", "w", "/", "s", ".", "css">>, <<"/", "w", "/", "m", ".", "js">>,
      <<"/", "w", "/", "p", ".", "png">>, <<"/", "w", "/", "v", ".", "svg">>,
      <<"/", "w", "/", "t", ".", "txt">>, <<"/", "w", "/", "d", ".", "json">>,
      <<"/", "w", "/", "b", ".", "bin">>, <<"/", "w", "/", "Makefile">> }

(* The body serveFile gives the response *)
FileBody(filePath, content) ==
    IF IsHtmlResponse(getMimeType(filePath)) THEN injectHotReloadScript(content)
    ELSE content

(* serveFile on a file that Deno.readFile has read *)
ServeFile(filePath, content) ==
    /\ served' = [path |-> filePath, content |-> content,
                  body |-> FileBody(filePath, content),
                  headers |-> FileHeaders(filePath)]
    /\ UNCHANGED <<dirEntries, listing, htmlContent, injected, dom, fsIndex, req, resp, pair,
                   call, watchVars, hubVars, apiVars, goVars>>

----
(* The helpers of the log line *)

NoCall == [fn |-> "", arg |-> <<>>, out |-> <<>>]

(* The digits of a number, as a template literal writes it *)
DigitChars == <<"0", "1", "2", "3", "4", "5", "6", "7", "8", "9">>

RECURSIVE Digits(_)
Digits(n) ==
    IF n < 0 THEN <<"-">> \o Digits(0 - n)
    ELSE IF n < 10 THEN <<DigitChars[n + 1]>>
    ELSE Append(Digits(n \div 10), DigitChars[(n % 10) + 1])

(* @std/fmt/colors: the text between the code that sets the style and the
   code that resets it *)
green(str) == <<"ESC[32m">> \o str \o <<"ESC[39m">>
yellow(str) == <<"ESC[33m">> \o str \o <<"ESC[39m">>
red(str) == <<"ESC[31m">> \o str \o <<"ESC[39m">>
bold(str) == <<"ESC[1m">> \o str \o <<"ESC[22m">>

(* A bucketing whose tests are on the hundreds *)
getColoredStatusTextByHundreds(status) ==
    LET text == <<"[">> \o Digits(status) \o <<"]">>
    IN  IF status \div 100 = 2 /\ status % 100 # 0 THEN green(text)
        ELSE IF status \div 100 = 3 THEN yellow(text)
        ELSE IF status \div 100 = 4 THEN red(text)
        ELSE bold(red(text))

getColoredStatusText(status) ==
    LET text == <<"[">> \o Digits(status) \o <<"]">>
    IN  IF status >= 200 /\ status < 300 THEN green(text)
        ELSE IF status >= 300 /\ status < 400 THEN yellow(text)
        ELSE IF status >= 400 /\ status < 500 THEN red(text)
        ELSE bold(red(text))

(* The statuses the helper is called with: the codes of HTTP, and
   integers on either side of them *)
Statuses == (0 - 1)..0 \cup 98..601 \cup {999, 1000}

ColorStatus(status) ==
    /\ call' = [fn |-> "getColoredStatusText", arg |-> status,
                out |-> getColoredStatusText(status)]
    /\ UNCHANGED <<fsIndex, req, resp, pair, pageVars, watchVars, hubVars, apiVars, goVars>>

(* The helper has returned. *)
CallDone ==
    /\ call.fn # ""
    /\ call' = NoCall
    /\ UNCHANGED <<fsIndex, req, resp, pair, pageVars, watchVars, hubVars, apiVars, goVars>>

----
(* The command line.  An argument is one string; a value of a flag is
   written with its JavaScript type, <<"boolean", "true">> or
   <<"string", "*">>, and a port as an integer. *)

MaxArgs == 5

DEFAULT_HOST == "localhost"
DEFAULT_PORT == "5327"
cwd == "/home/user"

True == <<"boolean", "true">>
False == <<"boolean", "false">>
Str(v) == <<"string", v>>

StringFlags == {"dir", "host", "port"}
BooleanFlags == {"watch", "cors", "help", "version"}
Negatable == {"watch"}

(* The flag an argument names, "" when it names none: "--key", or "-k"
   with k an alias. *)
Key(arg) ==
    CASE arg \in {"--dir", "-d"} -> "dir"
      [] arg \in {"--host", "-a"} -> "host"
      [] arg \in {"--port", "-p"} -> "port"
      [] arg \in {"--watch", "-w"} -> "watch"
      [] arg = "--cors" -> "cors"
      [] OTHER -> ""

(* "--no-key" of a negatable flag *)
Negated(arg) == IF arg = "--no-watch" THEN "watch" ELSE ""

(* arg.startsWith("-") *)
Dashed(arg) == Key(arg) # "" \/ Negated(arg) # ""

(* The flags before any argument is read: the defaults of parse, and
   false for the boolean flags that have none; positional is the "_" of
   parseArgs. *)
Defaults ==
    [dir |-> Str(cwd), host |-> Str(DEFAULT_HOST), port |-> Str(DEFAULT_PORT),
     watch |-> True, cors |-> False, help |-> False, version |-> False, positional |-> <<>>]

(* parseArgs of @std/cli, from the i-th argument on.  A string flag takes
   the next argument unless that starts with "-"; a boolean flag takes it
   only when it is "true" or "false"; everything else is positional. *)
RECURSIVE parseArgs(_, _, _)
parseArgs(args, i, flags) ==
    IF i > Len(args) THEN flags
    ELSE LET arg == args[i]
             key == Key(arg)
             next == IF i < Len(args) THEN args[i + 1] ELSE ""
             hasNext == i < Len(args)
         IN  IF Negated(arg) \in Negatable
             THEN parseArgs(args, i + 1, [flags EXCEPT ![Negated(arg)] = False])
             ELSE IF key \in StringFlags
             THEN IF hasNext /\ ~Dashed(next)
                  THEN parseArgs(args, i + 2, [flags EXCEPT ![key] = Str(next)])
                  ELSE parseArgs(args, i + 1, [flags EXCEPT ![key] = Str("")])
             ELSE IF key \in BooleanFlags
             THEN IF hasNext /\ next \in {"true", "false"}
                  THEN parseArgs(args, i + 2,
                                 [flags EXCEPT ![key] = <<"boolean", next>>])
                  ELSE parseArgs(args, i + 1, [flags EXCEPT ![key] = True])
             ELSE parseArgs(args, i + 1, [flags EXCEPT !.positional = Append(@, arg)])

(* Number(string), on the strings the arguments below hold; a string that
   is no numeral gives NaN. *)
Number(str) ==
    CASE str = "5327" -> [nan |-> FALSE, n |-> 5327]
      [] str = "8080" -> [nan |-> FALSE, n |-> 8080]
      [] str = "70000" -> [nan |-> FALSE, n |-> 70000]
      [] str = "" -> [nan |-> FALSE, n |-> 0]
      [] OTHER -> [nan |-> TRUE, n |-> 0]

Exit(code) ==
    [exit |-> code, dir |-> "", host |-> "", port |-> 0, watch |-> False, cors |-> False]

(* parse of cli.ts *)
parse(args) ==
    LET flags == parseArgs(args, 1, Defaults)
        directory == IF Len(flags.positional) > 0 THEN flags.positional[1]
                     ELSE flags.dir[2]
        port == Number(flags.port[2])
    IN  IF port.nan \/ port.n < 1 \/ port.n > 65535 THEN Exit(1)
        ELSE [exit |-> 0, dir |-> directory, host |-> flags.host[2], port |-> port.n,
              watch |-> flags.watch, cors |-> flags.cors]

(* The command lines: up to MaxArgs options, no option twice *)
Options ==
    { <<"--dir", "/tmp">>, <<"--host", "0.0.0.0">>, <<"--port", "8080">>,
      <<"--no-watch">>, <<"--cors", "https://example.com">>, <<"--cors">>,
      <<"/my/custom/dir">>, <<"-p", "70000">> }

RECURSIVE CommandLines(_)
CommandLines(n) ==
    IF n = 0 THEN { <<>> }
    ELSE LET shorter == CommandLines(n - 1)
         IN  shorter \cup { Append(c, o) : c \in shorter, o \in Options }

ParseCommandLine(options) ==
    /\ \A i, j \in 1..Len(options) : options[i] = options[j] => i = j
    /\ call' = [fn |-> "parse", arg |-> options, out |-> parse(Flatten(options))]
    /\ UNCHANGED <<fsIndex, req, resp, pair, pageVars, watchVars, hubVars, apiVars, goVars>>

----
(* The injected client.  The page has two stylesheet links, s.css and
   o.css; a link element is its number and its href. *)

MaxLinks == 6

MARKER == <<"?", "__hot_reload__">>

Origin == <<"http:", "/", "/", "h", "/">>

LoadedPage ==
    [links |-> << [id |-> 1, href |-> <<"s", ".", "css">>],
                  [id |-> 2, href |-> <<"css", "/", "o", ".", "css">>] >>,
     made |-> 2,
     listeners |-> {}]

(* files.some(...) of reloadCSS: the last segment of the link's href holds
   the file's name, or the file's name holds the href. *)
shouldReload(href, files) ==
    \E i \in 1..Len(files) :
        LET fileName == IF Last(Split(files[i], "/")) = <<>> THEN files[i]
                        ELSE Last(Split(files[i], "/"))
            linkFileName == IF Last(Split(href, "/")) = <<>> THEN href
                            ELSE Last(Split(href, "/"))
        IN  Includes(linkFileName, fileName) \/ Includes(fileName, href)

(* new URL(href, window.location.origin) with the marker set as its query *)
BustedHref(href) ==
    LET url == IF StartsWith(href, Origin) THEN href ELSE Origin \o href
    IN  IF EndsWith(url, MARKER) THEN url ELSE url \o MARKER

(* link.parentNode.insertBefore(newLink, link.nextSibling) *)
InsertAfter(links, id, newLink) ==
    LET i == CHOOSE k \in 1..Len(links) : links[k].id = id
    IN  SubSeq(links, 1, i) \o <<newLink>> \o SubSeq(links, i + 1, Len(links))

(* link.remove(): nothing happens when the element is not in the document *)
RemoveLink(links, id) == SelectSeq(links, LAMBDA l : l.id # id)

(* A reloadCSS that takes the old link out when it puts the new one in *)
RECURSIVE reloadCSSAtOnce(_, _, _)
reloadCSSAtOnce(snapshot, files, d) ==
    IF snapshot = <<>> THEN d
    ELSE LET link == Head(snapshot)
         IN  IF shouldReload(link.href, files)
             THEN LET newLink == [id |-> d.made + 1, href |-> BustedHref(link.href)]
                  IN  reloadCSSAtOnce(Tail(snapshot), files,
                          [links |-> RemoveLink(InsertAfter(d.links, link.id, newLink),
                                                link.id),
                           made |-> d.made + 1,
                           listeners |-> d.listeners])
             ELSE reloadCSSAtOnce(Tail(snapshot), files, d)

(* reloadCSS: the forEach over the links querySelectorAll returned.  Each
   matching link gets a clone with the new href after it, and the clone
   the two listeners that remove the link. *)
RECURSIVE reloadCSS(_, _, _)
reloadCSS(snapshot, files, d) ==
    IF snapshot = <<>> THEN d
    ELSE LET link == Head(snapshot)
         IN  IF shouldReload(link.href, files)
             THEN LET newLink == [id |-> d.made + 1, href |-> BustedHref(link.href)]
                  IN  reloadCSS(Tail(snapshot), files,
                          [links |-> InsertAfter(d.links, link.id, newLink),
                           made |-> d.made + 1,
                           listeners |-> d.listeners
                               \cup { [new |-> newLink.id, old |-> link.id] }])
             ELSE reloadCSS(Tail(snapshot), files, d)

ClientUnchanged ==
    UNCHANGED <<dirEntries, listing, htmlContent, injected, served, fsIndex, req, resp,
                pair, call, watchVars, hubVars, apiVars, goVars>>

Matching(links, files) == SelectSeq(links, LAMBDA l : shouldReload(l.href, files))

(* The 'message' listener of the client, on a css-change message *)
CssChange(files) ==
    /\ dom.made + Len(Matching(dom.links, files)) <= MaxLinks
    /\ dom' = reloadCSS(dom.links, files, dom)
    /\ ClientUnchanged

(* The 'message' listener on a full-reload message: the page is loaded
   anew. *)
FullReload ==
    /\ dom # LoadedPage
    /\ dom' = LoadedPage
    /\ ClientUnchanged

(* The load or the error event of a new link fires, whether or not the
   link is still in the document: its listener removes the old link. *)
LinkEvent(l, kind) ==
    /\ l \in dom.listeners
    /\ dom' = [dom EXCEPT !.links = RemoveLink(@, l.old),
                          !.listeners = @ \ {l}]
    /\ ClientUnchanged

CssFiles == { <<PCss>>, <<PCss2>>, << <<"/", "w", "/", "css", "/", "o", ".", "css">> >> }

----
(* The Go server that restarts on "r".  Three goroutines share the server
   instance and the restart channel: main, which serves in a loop,
   handleGracefulExit, which waits for the interrupt, and handleRestart,
   which reads standard input.  s.server is read and written without
   synchronisation: a read yields the instance of the moment it is made. *)

MaxLines == 3

(* What the user types, each line with its delimiter *)
Lines == { <<"r", "\n">>, <<" ", "r", "\n">>, <<"x", "\n">> }

WhiteSpace == {" ", "\n", "\t", "\r"}

(* strings.TrimSpace *)
RECURSIVE TrimSpace(_)
TrimSpace(text) ==
    IF text = <<>> THEN <<>>
    ELSE IF Head(text) \in WhiteSpace THEN TrimSpace(Tail(text))
    ELSE IF text[Len(text)] \in WhiteSpace
         THEN TrimSpace(SubSeq(text, 1, Len(text) - 1))
    ELSE text

(* The process is alive: main has not returned and no goroutine panicked. *)
Running == mainPc # "exit" /\ ~panicked

(* Shutdown of http.Server on the instance srv: the servers shut down so
   far, with srv; the listeners are closed when it returns. *)
ServerShutdown(srv, shutDown) == shutDown \cup {srv}

(* IsDone that takes every value of the channel for the last *)
IsDoneAlways(v) == TRUE

(* IsDone: !<-s.restart, on the value received *)
IsDone(v) == ~v

(* Serve, up to the assignment of s.server: a new instance *)
Serve ==
    /\ Running
    /\ mainPc = "serve"
    /\ server' = server + 1
    /\ mainPc' = "listen"
    /\ UNCHANGED <<nonGoVars, closed, restart, signalChan, stdin, typed, asked, panicked,
                   exitPc, restartPc>>

(* s.server.ListenAndServe(): it returns ErrServerClosed at once on an
   instance that was shut down, and listens otherwise. *)
ListenAndServe ==
    /\ Running
    /\ mainPc = "listen"
    /\ mainPc' = (IF server \in closed THEN "isDone" ELSE "serving")
    /\ UNCHANGED <<nonGoVars, server, closed, restart, signalChan, stdin, typed, asked,
                   panicked, exitPc, restartPc>>

(* ListenAndServe returns once the instance is shut down; main logs the
   error and calls IsDone, where it waits on the channel. *)
ErrServerClosed ==
    /\ Running
    /\ mainPc = "serving"
    /\ server \in closed
    /\ mainPc' = "isDone"
    /\ UNCHANGED <<nonGoVars, server, closed, restart, signalChan, stdin, typed, asked,
                   panicked, exitPc, restartPc>>

(* The receive of IsDone: the channel has no buffer, the senders wait in
   their order of arrival, and the first one is resumed.  The loop breaks
   when IsDone is true. *)
Receive ==
    /\ Running
    /\ mainPc = "isDone"
    /\ restart # <<>>
    /\ LET m == Head(restart) IN
        /\ restart' = Tail(restart)
        /\ mainPc' = (IF IsDone(m.value) THEN "exit" ELSE "serve")
        /\ exitPc' = (IF m.from = "exit" THEN "done" ELSE exitPc)
        /\ restartPc' = (IF m.from = "restart" THEN "read" ELSE restartPc)
    /\ UNCHANGED <<nonGoVars, server, closed, signalChan, stdin, typed, asked, panicked>>

(* The operating system delivers an interrupt: signal.Notify sends on
   signalChan without blocking, and the buffer holds one signal. *)
Interrupt ==
    /\ Running
    /\ ~signalChan
    /\ signalChan' = TRUE
    /\ UNCHANGED <<nonGoVars, server, closed, restart, stdin, typed, asked, panicked,
                   mainPc, exitPc, restartPc>>

(* handleGracefulExit: <-signalChan *)
SignalReceived ==
    /\ Running
    /\ exitPc = "wait"
    /\ signalChan
    /\ signalChan' = FALSE
    /\ exitPc' = "shutdown"
    /\ UNCHANGED <<nonGoVars, server, closed, restart, stdin, typed, asked, panicked,
                   mainPc, restartPc>>

(* handleGracefulExit: s.server.Shutdown(...); on a nil s.server the call
   panics and the process ends. *)
ExitShutdown ==
    /\ Running
    /\ exitPc = "shutdown"
    /\ IF server = 0
       THEN panicked' = TRUE /\ UNCHANGED <<closed, exitPc>>
       ELSE /\ closed' = ServerShutdown(server, closed)
            /\ exitPc' = "send"
            /\ UNCHANGED panicked
    /\ UNCHANGED <<nonGoVars, server, restart, signalChan, stdin, typed, asked, mainPc,
                   restartPc>>

(* handleGracefulExit: s.restart <- false *)
ExitSend ==
    /\ Running
    /\ exitPc = "send"
    /\ restart' = Append(restart, [from |-> "exit", value |-> FALSE])
    /\ exitPc' = "blocked"
    /\ UNCHANGED <<nonGoVars, server, closed, signalChan, stdin, typed, asked, panicked,
                   mainPc, restartPc>>

(* The user types a line; asked records the instance that is serving when
   the line is a restart request. *)
TypeLine(text) ==
    /\ Running
    /\ typed < MaxLines
    /\ typed' = typed + 1
    /\ stdin' = Append(stdin, text)
    /\ asked' = (IF /\ TrimSpace(text) = <<"r">>
                    /\ mainPc = "serving"
                    /\ server \notin closed
                 THEN asked \cup {server} ELSE asked)
    /\ UNCHANGED <<nonGoVars, server, closed, restart, signalChan, panicked, mainPc,
                   exitPc, restartPc>>

TypeLines == \E text \in Lines : TypeLine(text)

(* handleRestart: reader.ReadString('\n') and the test on the line *)
ReadString ==
    /\ Running
    /\ restartPc = "read"
    /\ stdin # <<>>
    /\ stdin' = Tail(stdin)
    /\ restartPc' = (IF TrimSpace(Head(stdin)) = <<"r">> THEN "shutdown" ELSE "read")
    /\ UNCHANGED <<nonGoVars, server, closed, restart, signalChan, typed, asked, panicked,
                   mainPc, exitPc>>

(* handleRestart: s.server.Shutdown(...) *)
RestartShutdown ==
    /\ Running
    /\ restartPc = "shutdown"
    /\ IF server = 0
       THEN panicked' = TRUE /\ UNCHANGED <<closed, restartPc>>
       ELSE /\ closed' = ServerShutdown(server, closed)
            /\ restartPc' = "send"
            /\ UNCHANGED panicked
    /\ UNCHANGED <<nonGoVars, server, restart, signalChan, stdin, typed, asked, mainPc,
                   exitPc>>

(* handleRestart: s.restart <- true *)
RestartSend ==
    /\ Running
    /\ restartPc = "send"
    /\ restart' = Append(restart, [from |-> "restart", value |-> TRUE])
    /\ restartPc' = "blocked"
    /\ UNCHANGED <<nonGoVars, server, closed, signalChan, stdin, typed, asked, panicked,
                   mainPc, exitPc>>

(* The steps of each goroutine *)
MainStep == Serve \/ ListenAndServe \/ ErrServerClosed \/ Receive
ExitStep == SignalReceived \/ ExitShutdown \/ ExitSend
RestartStep == ReadString \/ RestartShutdown \/ RestartSend

----
(* The specifications *)

Init ==
    /\ fsIndex = "none"
    /\ req = <<>>
    /\ resp = NoResponse
    /\ dirEntries = <<>>
    /\ listing = <<>>
    /\ htmlContent = <<>>
    /\ injected = <<>>
    /\ served = NoFile
    /\ pair = NoPair
    /\ dom = LoadedPage
    /\ call = NoCall
    /\ wpc = "start"
    /\ watcher = "null"
    /\ aborted = FALSE
    /\ listening = FALSE
    /\ isShuttingDown = FALSE
    /\ debounceTimer = 0
    /\ timers = {}
    /\ fsQueue = <<>>
    /\ burst = {}
    /\ wsClients = <<>>
    /\ readyState = [s \in Sessions |-> "none"]
    /\ handled = [s \in Sessions |-> {}]
    /\ lastSendFailed = [s \in Sessions |-> FALSE]
    /\ lastB = NoBroadcast
    /\ nBroadcasts = 0
    /\ afterShutdown = FALSE
    /\ shutdownCalled = FALSE
    /\ apiDir = "ok"
    /\ apiExports = [f \in ApiFileNames |-> "absent"]
    /\ apiReq = NoApiRequest
    /\ apiResp = NoApiResponse
    /\ apiFound = Undefined
    /\ moduleMap = [f \in ApiFileNames |-> "none"]
    /\ apiModule = "none"
    /\ server = 0
    /\ closed = {}
    /\ restart = <<>>
    /\ signalChan = FALSE
    /\ stdin = <<>>
    /\ typed = 0
    /\ asked = {}
    /\ panicked = FALSE
    /\ mainPc = "serve"
    /\ exitPc = "wait"
    /\ restartPc = "read"

(* The static responder, over the request paths and /w/d/index.html *)
NextStatic ==
    \/ StaticRequests
    \/ StaticDone
    \/ \E k \in IndexKinds : SetIndex(k)

SpecStatic == Init /\ [][NextStatic]_vars

(* The pages *)
NextPages ==
    \/ PageIdle /\ \E entries \in ReadDirs : ListDirectory(entries)
    \/ PageIdle /\ \E content \in HtmlContents : InjectScript(content)
    \/ PageIdle /\ \E filePath \in FilePaths, content \in HtmlContents :
                    ServeFile(filePath, content)
    \/ PageDone

SpecPages == Init /\ [][NextPages]_vars

(* The helpers, each over its arguments *)
NextHelpers ==
    \/ call.fn = "" /\ \E status \in Statuses : ColorStatus(status)
    \/ CallDone

SpecHelpers == Init /\ [][NextHelpers]_vars

(* The command line, over the option lists *)
NextCli ==
    \/ call.fn = "" /\ \E options \in CommandLines(MaxArgs) : ParseCommandLine(options)
    \/ CallDone

SpecCli == Init /\ [][NextCli]_vars

(* The client in the browser, over the messages it is sent *)
NextClient ==
    \/ \E files \in CssFiles : CssChange(files)
    \/ FullReload
    \/ \E l \in dom.listeners : \E kind \in {"load", "error"} : LinkEvent(l, kind)

SpecClient == Init /\ [][NextClient]_vars

NextPair ==
    \/ pair = NoPair /\ \E p \in Probes, q \in ShortPaths : TwoRequests(p, q)
    \/ PairDone
    \/ pair = NoPair /\ \E k \in IndexKinds : SetIndex(k)

SpecPair == Init /\ [][NextPair]_vars

(* The watcher with its timer, over every filesystem event and every
   outcome of the stat; no session connects. *)
NextWatch ==
    \/ \E o \in {"dir", "notdir", "NotFound", "PermissionDenied"} : StatDone(o)
    \/ \E e \in FsEvents : Deliver(e)
    \/ WatcherYield
    \/ WatcherDone
    \/ \E t \in timers : TimerFire(t, {})
    \/ Shutdown

SpecWatch == Init /\ [][NextWatch]_vars

HubEvents == { FsEvent("modify", <<PCss>>) }

(* The watcher next to the static responder: every outcome of the stat,
   one event, and two request targets. *)
DegradedPaths == { <<"/">>, <<"/", "a", ".", "html">> }

NextDegraded ==
    \/ \E o \in {"dir", "notdir", "NotFound", "PermissionDenied"} : StatDone(o)
    \/ \E e \in HubEvents : Deliver(e)
    \/ WatcherYield
    \/ WatcherDone
    \/ \E t \in timers : TimerFire(t, {})
    \/ Shutdown
    \/ ~aborted /\ \E p \in DegradedPaths : StaticRequest(p)
    \/ StaticDone

SpecDegraded == Init /\ [][NextDegraded]_vars

(* The hub with its sessions; the watcher runs over one event. *)

NextHub ==
    \/ \E s \in Sessions : Upgrade(s)
    \/ \E s \in Sessions : OpenEvent(s)
    \/ \E s \in Sessions : PeerClosing(s)
    \/ \E s \in Sessions : ConnectionClosed(s)
    \/ \E s \in Sessions : CloseEvent(s)
    \/ \E s \in Sessions : ErrorEvent(s)
    \/ StatDone("dir")
    \/ \E e \in HubEvents : Deliver(e)
    \/ WatcherYield
    \/ WatcherDone
    \/ \E t \in timers : \E fails \in SUBSET Range(wsClients) : TimerFire(t, fails)
    \/ Shutdown

SpecHub == Init /\ [][NextHub]_vars

(* The sessions alone: the three listeners of handleWebSocketUpgrade, the
   peer, and shutdown. *)
NextSessions ==
    \/ \E s \in Sessions : Upgrade(s)
    \/ \E s \in Sessions : OpenEvent(s)
    \/ \E s \in Sessions : PeerClosing(s)
    \/ \E s \in Sessions : ConnectionClosed(s)
    \/ \E s \in Sessions : CloseEvent(s)
    \/ \E s \in Sessions : ErrorEvent(s)
    \/ Shutdown

SpecSessions == Init /\ [][NextSessions]_vars

(* The broadcast over sessions in every state: they connect, the peer
   closes them, their close events are handled sooner or later, and the
   watcher runs over one event; no send throws. *)
NextStates ==
    \/ \E s \in Sessions : Upgrade(s)
    \/ \E s \in Sessions : OpenEvent(s)
    \/ \E s \in Sessions : PeerClosing(s)
    \/ \E s \in Sessions : ConnectionClosed(s)
    \/ \E s \in Sessions : CloseEvent(s)
    \/ StatDone("dir")
    \/ \E e \in HubEvents : Deliver(e)
    \/ WatcherYield
    \/ \E t \in timers : TimerFire(t, {})

SpecStates == Init /\ [][NextStates]_vars

(* The same with sends that throw *)
NextFailures ==
    \/ \E s \in Sessions : Upgrade(s)
    \/ \E s \in Sessions : OpenEvent(s)
    \/ \E s \in Sessions : PeerClosing(s)
    \/ \E s \in Sessions : ConnectionClosed(s)
    \/ \E s \in Sessions : CloseEvent(s)
    \/ StatDone("dir")
    \/ \E e \in HubEvents : Deliver(e)
    \/ WatcherYield
    \/ \E t \in timers : \E fails \in SUBSET Range(wsClients) : TimerFire(t, fails)

SpecFailures == Init /\ [][NextFailures]_vars

(* The frames: one session connects, the watcher runs over events of
   every kind, and each broadcast is sent to it. *)
FrameEvents ==
    { FsEvent("modify", <<PCss>>), FsEvent("create", <<PCss2, PTxt>>),
      FsEvent("modify", <<PTxt>>), FsEvent("modify", <<PUpper>>),
      FsEvent("modify", <<PHtml>>) }

NextFrames ==
    \/ Upgrade(1)
    \/ OpenEvent(1)
    \/ StatDone("dir")
    \/ \E e \in FrameEvents : Deliver(e)
    \/ WatcherYield
    \/ \E t \in timers : TimerFire(t, {})

SpecFrames == Init /\ [][NextFrames]_vars

(* The API dispatcher *)
NextApi ==
    \/ ApiRequests
    \/ ApiDone
    \/ \E f \in ApiFileNames : \E m \in Contents(f) : WriteApiFile(f, m)
    \/ \E f \in ApiFileNames : RemoveApiFile(f)
    \/ \E d \in {"ok", "missing", "denied"} : SetApiDir(d)

SpecApi == Init /\ [][NextApi]_vars

(* The static responder over the targets that lead to directories and to
   missing entries: the served root, /w/d, the sibling /w2, the link, a
   file of the root, a name that only /w2 holds, and ".." segments. *)
DirSegs == { SegD, <<>>, <<".", ".">>, SegW2, SegL, SegA, SegS }

RECURSIVE DirTails(_)
DirTails(n) ==
    IF n = 0 THEN { <<>> }
    ELSE LET shorter == DirTails(n - 1)
         IN  { <<>> } \cup { sep \o seg \o t : sep \in ReqSeps, seg \in DirSegs, t \in shorter }

DirPaths == { <<"/">> \o seg \o t : seg \in DirSegs, t \in DirTails(MaxSegs - 1) }

NextDirs ==
    \/ req = <<>> /\ \E p \in DirPaths : StaticRequest(p)
    \/ StaticDone
    \/ \E k \in IndexKinds : SetIndex(k)

SpecDirs == Init /\ [][NextDirs]_vars

(* The resolver alone, over sub-paths that hold glob metacharacters *)
GlobEndpoints ==
    { <<"hello">>, <<"*">>, <<"users", "/", "*">>, <<"*", "/", "profile">>,
      <<"users", "/", "profile">> }

NextResolve ==
    \/ apiReq = NoApiRequest /\ \E e \in GlobEndpoints : ApiRequest(e, "GET")
    \/ ApiDone
    \/ \E f \in ApiFileNames : WriteApiFile(f, "get")
    \/ \E f \in ApiFileNames : RemoveApiFile(f)

SpecResolve == Init /\ [][NextResolve]_vars

(* The Go server: the three goroutines, the user and the interrupt.  The
   scheduler lets every goroutine that can take a step take one; nothing
   makes the user type or the interrupt come. *)
NextGo ==
    \/ MainStep
    \/ ExitStep
    \/ RestartStep
    \/ TypeLines
    \/ Interrupt

SpecGo ==
    /\ Init /\ [][NextGo]_vars
    /\ WF_vars(MainStep) /\ WF_vars(ExitStep) /\ WF_vars(RestartStep)

Next == NextStatic \/ NextHelpers \/ NextCli \/ NextPair \/ NextPages \/ NextClient \/ NextWatch \/ NextHub \/ NextApi \/ NextGo

Spec == Init /\ [][Next]_vars

----
(* C1: every static response is a 403, or is built from no filesystem
   entry (a 404 or a 500), or is built from an entry that lies within the
   canonical served root: the root itself or a descendant of it. *)
C1_Containment ==
    resp.status = 403 \/ resp.entry = <<>> \/ Within(resp.entry[1])

(* C2: a burst of qualifying events, each arriving before the timer armed
   by the one before it has expired, is answered by exactly one broadcast,
   and the files of its message are the union of the qualifying paths of
   all the events of the burst. *)
C2_DebounceCollapse ==
    /\ Cardinality(timers) <= 1
    /\ lastB.message.type # "" => Range(lastB.message.files) = lastB.burst

(* C3: a broadcast message is css-change if and only if every path
   accumulated into its batch, from all the events debounced into it, ends
   in ".css"; otherwise it is full-reload. *)
C3_Classification ==
    lastB.message.type # "" =>
        /\ lastB.message.type \in {"css-change", "full-reload"}
        /\ lastB.message.type = "css-change"
              <=> \A f \in lastB.burst : EndsWith(f, <<".", "css">>)

(* The step is a call of broadcastToClients. *)
BroadcastStep == nBroadcasts' # nBroadcasts

(* C4: in a broadcast where send throws for some session, every session
   that is in the set and open has send called on it all the same, and
   those whose send does not throw stay in the set; a session whose send
   threw is not in the set when the broadcast returns; and in every state
   the set holds no session whose last send threw. *)
C4_BroadcastResilience ==
    [][ /\ \A s \in Range(wsClients') : ~lastSendFailed'[s]
        /\ BroadcastStep =>
              /\ \A s \in Range(wsClients) :
                    readyState[s] = "open" =>
                        /\ s \in Range(lastB'.calls)
                        /\ s \notin lastB'.threw => s \in Range(wsClients')
              /\ \A s \in lastB'.threw : s \notin Range(wsClients') ]_vars

(* A broadcast in which the send to the first session threw and the
   second session was sent the message. *)
C4_Witness ==
    /\ Len(lastB.calls) = 2
    /\ lastB.calls[1] \in lastB.threw
    /\ lastB.calls[2] \notin lastB.threw
    /\ lastB.calls[2] \in Range(wsClients)

(* C5: a broadcast calls send exactly once on each session that is in the
   set and open when the broadcast begins, in the order of the set, and on
   no other session; a session registered later is not among them. *)
C5_BroadcastTargets ==
    [][ BroadcastStep =>
          /\ Range(lastB'.calls) = { s \in Range(wsClients) : readyState[s] = "open" }
          /\ Cardinality(Range(lastB'.calls)) = Len(lastB'.calls)
          /\ lastB'.threw \subseteq Range(lastB'.calls) ]_vars

(* A session that is registered and open now and was not sent the last
   message, which another session was sent: it registered after the
   broadcast. *)
C5_Witness ==
    /\ lastB.calls # <<>>
    /\ \E s \in Range(wsClients) :
          readyState[s] = "open" /\ s \notin Range(lastB.calls)

(* C6: once shutdown() has been invoked no message is broadcast, no timer
   stays pending and no watcher stays open, whatever startFileWatcher was
   doing when shutdown() ran. *)
C6_QuietAfterShutdown ==
    /\ ~afterShutdown
    /\ shutdownCalled => timers = {} /\ watcher # "open"

(* An API request is answered and its namespace could be walked. *)
ApiAnswered == apiReq # NoApiRequest /\ apiDir = "ok"

RouteTs == apiReq.endpoint \o <<".", "ts">>
RouteJs == apiReq.endpoint \o <<".", "js">>

(* The route is a single segment, which is what the resolver that lists
   the directory compares entry names with. *)
FlatRoute == ~Includes(apiReq.endpoint, <<"/">>)

(* C7: when <route>.ts and <route>.js both exist the resolved file is the
   .ts one, and the .js one is resolved only when no <route>.ts exists;
   the resolver that lists the directory resolves the same way in every
   order in which the entries can be yielded. *)
C7_TsBeforeJs ==
    ApiAnswered =>
        /\ RouteTs \in ApiFiles(apiExports) => apiResp.file = <<RouteTs>>
        /\ apiResp.file = <<RouteJs>> => RouteTs \notin ApiFiles(apiExports)
        /\ (FlatRoute /\ RouteTs \in ApiFiles(apiExports)) => apiFound = Found(RouteTs)
        /\ apiFound = Found(RouteJs) => RouteTs \notin ApiFiles(apiExports)

(* Both files of a route exist and both resolvers gave the .ts one. *)
C7_Witness ==
    /\ ApiAnswered
    /\ {RouteTs, RouteJs} \subseteq ApiFiles(apiExports)
    /\ apiResp.file = <<RouteTs>>
    /\ apiFound = Found(RouteTs)

(* The export of the resolved module under the uppercased request method *)
Selected == Export(apiModule, toUpperCase(apiReq.method))

(* C8: for a resolved route whose module loads, a function exported under
   the uppercased request method that returns gives the response, exactly
   as returned; with no function under that name the response is a 405
   whose body names the uppercased method and the route. *)
C8_Dispatch ==
    (ApiAnswered /\ apiResp.file # <<>> /\ apiModule # "broken") =>
        /\ Selected = "returns" =>
              apiResp = HandlerResponse(apiResp.file[1], toUpperCase(apiReq.method))
        /\ Selected \in {"value", "undefined"} =>
              /\ apiResp.status = 405
              /\ apiResp.body.arg = <<toUpperCase(apiReq.method), " ">> \o apiReq.endpoint
              /\ apiResp.invoked = <<>>

(* A module that exports PATCH answers a request whose method is patch. *)
C8_Witness ==
    /\ ApiAnswered
    /\ apiReq.method = "patch"
    /\ apiResp.status = 200
    /\ apiResp.invoked = <<"PATCH">>

(* C9: when the import of the resolved file throws, or the selected
   handler throws or rejects, the response is a 500 with the generic body,
   and no error leaves handleServerFunction. *)
C9_ErrorsBecome500 ==
    (ApiAnswered /\ apiResp.file # <<>>) =>
        /\ apiResp.threw = ""
        /\ (apiModule = "broken" \/ Selected = "throws") =>
              /\ apiResp.status = 500
              /\ apiResp.body = [tag |-> "Internal Server Error", arg |-> <<>>]

(* C10: when no .ts and no .js file is at the requested sub-path, also
   when the API directory does not exist, the response is a 404 with the
   sub-path in its body, and no module is imported and no handler called. *)
C10_NotFound ==
    (/\ apiReq # NoApiRequest
     /\ apiDir \in {"ok", "missing"}
     /\ RouteTs \notin ApiFiles(apiExports)
     /\ RouteJs \notin ApiFiles(apiExports)) =>
        /\ apiResp.status = 404
        /\ apiResp.body.arg = apiReq.endpoint
        /\ apiResp.file = <<>>
        /\ apiResp.invoked = <<>>

(* A 404 for a route whose base name exists only in a subdirectory *)
C10_Witness ==
    /\ apiReq.endpoint = <<"profile">>
    /\ apiDir = "ok"
    /\ ProfileTs \in ApiFiles(apiExports)
    /\ apiResp.status = 404
    /\ apiResp.body.arg = apiReq.endpoint

----
(* C11: the module a request is dispatched to is the one the resolved file
   holds at the time of the request, also when the file was edited after
   an earlier request had loaded it. *)
C11_EditReload ==
    (ApiAnswered /\ apiResp.file # <<>>) =>
        apiModule = apiExports[apiResp.file[1]]

(* C12: a route of several segments resolves to the file at that relative
   path under the API directory, the .ts one before the .js one, and no
   route resolves to a file at another relative path, whatever files of
   the same base name other directories hold. *)
C12_NestedRoutes ==
    ApiAnswered =>
        /\ apiResp.file # <<>> => apiResp.file[1] \in {RouteTs, RouteJs}
        /\ apiFound.path # <<>> => apiFound.path[1] \in {RouteTs, RouteJs}
        /\ ~FlatRoute =>
              /\ RouteTs \in ApiFiles(apiExports) => apiResp.file = <<RouteTs>>
              /\ (RouteTs \notin ApiFiles(apiExports) /\ RouteJs \in ApiFiles(apiExports)) =>
                    apiResp.file = <<RouteJs>>

(* users/profile resolved to users/profile.js while the root holds a
   profile.js *)
C12_Witness ==
    /\ ApiAnswered
    /\ apiReq.endpoint = <<"users", "/", "profile">>
    /\ ProfileJs \in ApiFiles(apiExports)
    /\ apiResp.file = <<NestedJs>>

(* C13: in a listing every entry of the directory has exactly one row, the
   rows of the directories come before the rows of the files, and the
   names of each of the two groups ascend by their code units. *)
C13_ListingOrder ==
    /\ Len(listing) = Len(dirEntries)
    /\ { [name |-> r.name, isDirectory |-> r.slash] : r \in Range(listing) }
          = Range(dirEntries)
    /\ \A i, j \in 1..Len(listing) :
          i < j =>
             /\ listing[j].slash => listing[i].slash
             /\ listing[i].slash = listing[j].slash =>
                   Ordinal(listing[i].name, listing[j].name) < 0

(* C14: a listing has the ".." row if and only if the directory listed is
   not the served root, by whatever request path the directory was
   reached. *)
C14_ParentLink ==
    resp.kind = "listing" =>
        (ParentLink(resp.body.arg) <=> resp.entry[1] # RootPath)

(* The text of the document given to the injection *)
Document == decode(htmlContent)

(* The script is in `out` right before the i-th piece of the document,
   with at most a line break between them, and nothing else differs. *)
InsertedBefore(out, i) ==
    LET pre == SubSeq(Document, 1, i - 1)
        post == SubSeq(Document, i, Len(Document))
    IN  out \in { pre \o <<hotReloadScript>> \o post,
                  pre \o <<hotReloadScript, "\n">> \o post }

ClosingBody == { i \in 1..Len(Document) : Document[i] \in {"</body>", "</BODY>"} }
ClosingHtml == { i \in 1..Len(Document) : Document[i] \in {"</html>", "</HTML>"} }

(* C15: the injection puts one script tag into the document: right before
   a closing body tag, in whatever case the tag is written, when there is
   one; else right before a closing html tag when there is one; else at
   the end; and the rest of the document is as it was. *)
C15_Injection ==
    injected # <<>> =>
        IF ClosingBody # {} THEN \E i \in ClosingBody : InsertedBefore(injected, i)
        ELSE IF ClosingHtml # {} THEN \E i \in ClosingHtml : InsertedBefore(injected, i)
        ELSE injected = Append(Document, hotReloadScript)

----
(* The file response: body and headers *)

(* The server of part_005 starts the watcher and injects without a flag:
   live reload is always enabled. *)
liveReload == TRUE

DenotesHtml(mimeType) == StartsWith(mimeType, <<"text/", "html">>)

(* C16: the body of a file response holds the client script exactly when
   the MIME type looked up for the file denotes HTML and live reload is
   enabled; in every other case the body is the file's content unchanged. *)
C16_InjectedIffHtml ==
    served # NoFile =>
        LET html == DenotesHtml(getMimeType(served.path)) /\ liveReload
        IN  /\ hotReloadScript \in Range(served.body) <=> html
            /\ ~html => served.body = served.content

CacheControl(headers) == { h[2] : h \in { x \in headers : x[1] = "Cache-Control" } }

(* C17: a file response has Cache-Control "no-cache, no-store,
   must-revalidate" when its MIME type is HTML, "public, max-age=0,
   must-revalidate" when it is an image type or JavaScript, and no
   Cache-Control header for any other type. *)
C17_CacheControl ==
    served # NoFile =>
        LET mimeType == getMimeType(served.path)
        IN  CacheControl(served.headers) =
                IF DenotesHtml(mimeType)
                THEN { "no-cache, no-store, must-revalidate" }
                ELSE IF mimeType[1] = "image/" \/ mimeType[2] = "javascript"
                THEN { "public, max-age=0, must-revalidate" }
                ELSE {}

(* C18: every response the server produces has the header
   X-Content-Type-Options: nosniff. *)
C18_NoSniff ==
    resp.kind \notin {"none", "thrown"} =>
        <<"X-Content-Type-Options", "nosniff">> \in resp.headers

----
(* Rejected paths *)

(* The decoded path of the request being answered *)
DecodedPath == decodeURIComponent(pathname(req)).s

Canonicalizes ==
    /\ req # <<>>
    /\ decodeURIComponent(pathname(req)).ok
    /\ realPath(dir, fsIndex).err = ""
    /\ realPath(dir \o DecodedPath, fsIndex).err = ""

Suspicious(decoded) ==
    Includes(decoded, <<NUL>>) \/ <<".", ".">> \in Range(Split(decoded, "/"))

(* C19: a request whose target canonicalizes and whose decoded path holds
   a NUL byte or a ".." segment is answered 403, also when the canonical
   target lies inside the served root. *)
C19_SuspiciousForbidden ==
    (Canonicalizes /\ Suspicious(DecodedPath)) => resp.status = 403

(* The canonical path a request target resolves to *)
CanonicalTarget(target) ==
    realPath(dir \o decodeURIComponent(pathname(target)).s, fsIndex).path

BodyText(body) == <<body.tag>> \o body.arg

(* C20: the body of a 403 response does not depend on the canonical
   target: two rejected requests with different canonical targets get the
   same body, and the body does not hold the canonical path. *)
C20_ForbiddenBody ==
    pair # NoPair =>
        /\ (/\ pair.a.status = 403 /\ pair.b.status = 403
            /\ CanonicalTarget(pair.p) # CanonicalTarget(pair.q))
           => pair.a.body = pair.b.body
        /\ \A r \in { <<pair.p, pair.a>>, <<pair.q, pair.b>> } :
              r[2].status = 403 =>
                  ~Includes(BodyText(r[2].body), PathString(CanonicalTarget(r[1])))

C20_Witness ==
    /\ pair # NoPair
    /\ pair.a.status = 403 /\ pair.b.status = 403
    /\ CanonicalTarget(pair.p) # CanonicalTarget(pair.q)

----
(* Missing targets *)

(* The values of the --spa option the README documents.  The server of
   part_005 takes a directory, a host and a port and reads no such
   option: its response is the same under either value. *)
SpaOptions == {TRUE, FALSE}

Missing ==
    /\ req # <<>>
    /\ decodeURIComponent(pathname(req)).ok
    /\ realPath(dir, fsIndex).err = ""
    /\ realPath(dir \o DecodedPath, fsIndex).err = "NotFound"

(* C21: without SPA fallback, a request whose target does not exist is
   answered 404 with the not-found page of the decoded request path, and
   never 403, also when the missing target would lie outside the served
   directory. *)
C21_MissingIsNotFound ==
    \A spa \in SpaOptions :
        (~spa /\ Missing) =>
            /\ resp.status = 404
            /\ resp.body = [tag |-> "NotFoundPage", arg |-> DecodedPath]

C21_Witness ==
    /\ Missing
    /\ <<".", ".">> \in Range(Split(DecodedPath, "/"))
    /\ ~StartsWith(Split(DecodedPath, "/"), <<<<>>, SegD>>)
    /\ resp.status = 404

(* C22: with SPA fallback enabled, a request whose path does not exist is
   answered with index.html of the served directory as a file, status
   200; a 404 is produced only with SPA fallback disabled. *)
C22_SpaFallback ==
    \A spa \in SpaOptions :
        (spa /\ Missing) =>
            /\ resp.status = 200
            /\ resp.kind = "file"
            /\ resp.body.arg = dir \o <<"/">> \o SegIndex

----
(* Failures of the filesystem *)

(* The error of the step of the second try block that fails, "" if none *)
ServeStepError(resolvedPath, idx) ==
    LET fileInfo == stat(resolvedPath, idx)
        indexPath == resolvedPath
            \o (IF EndsWith(resolvedPath, <<"/">>) THEN <<>> ELSE <<"/">>) \o SegIndex
    IN  IF fileInfo.err # "" THEN fileInfo.err
        ELSE IF ~fileInfo.isDirectory THEN readFile(resolvedPath, idx).err
        ELSE IF stat(indexPath, idx).err = "" THEN readFile(indexPath, idx).err
        ELSE IF stat(indexPath, idx).err = "NotFound"
        THEN generateDirectoryListingPage(DecodedPath, resolvedPath, idx).err
        ELSE stat(indexPath, idx).err

(* The error of the first step of the request that fails, "" if none or
   if the request is refused before *)
StepError ==
    LET resolvedPath == dir \o DecodedPath
        base == realPath(dir, fsIndex)
        real == realPath(resolvedPath, fsIndex)
    IN  IF req = <<>> \/ ~decodeURIComponent(pathname(req)).ok THEN ""
        ELSE IF base.err # "" THEN base.err
        ELSE IF real.err # "" THEN real.err
        ELSE IF Blocked(PathString(real.path), PathString(base.path), resolvedPath) THEN ""
        ELSE ServeStepError(resolvedPath, fsIndex)

(* C23: a permission failure at any step of a static request
   (canonicalization, stat, read, enumeration) is answered 403, and any
   other unexpected failure 500; neither is answered 404 or 200. *)
C23_FailureStatus ==
    /\ StepError = "PermissionDenied" => resp.status = 403
    /\ StepError = "Other" => resp.status = 500

----
(* The watcher that could not be set up *)

(* startFileWatcher has returned, and no watcher was created. *)
SetupFailed == wpc \in {"ended", "failed"} /\ watcher = "null"

(* C24: when the setup of the watcher fails, startFileWatcher logs and
   ends without throwing, static requests are answered as before, and no
   message is broadcast for the rest of the run. *)
C24_WatcherDegraded ==
    [][ /\ (wpc = "start" /\ wpc' # "start") => wpc' \in {"watching", "ended", "failed"}
        /\ SetupFailed => /\ SetupFailed'
                          /\ nBroadcasts' = nBroadcasts
                          /\ lastB' = lastB
        /\ (SetupFailed /\ req = <<>> /\ req' # <<>>)
              => resp' = serveHandler(req', fsIndex) ]_vars

C24_Witness ==
    /\ wpc = "failed" /\ watcher = "null"
    /\ req = <<"/", "a", ".", "html">> /\ resp.status = 200
    /\ nBroadcasts = 0

----
(* The session set *)

Member(s, clients) == s \in Range(clients)

NoDuplicates(clients) ==
    \A i, j \in 1..Len(clients) : clients[i] = clients[j] => i = j

(* C25: a session whose close or error event has been handled is not in
   the set; a session enters the set only when its open event is handled,
   and none does after its close or error event (a closed socket stays
   closed); no session is in the set twice. *)
C25_SessionSet ==
    [][ /\ NoDuplicates(wsClients')
        /\ \A s \in Sessions :
              /\ "close" \in handled'[s] => ~Member(s, wsClients')
              /\ ErrorEvent(s) => ~Member(s, wsClients')
              /\ (~Member(s, wsClients) /\ Member(s, wsClients'))
                    => readyState[s] = "connecting" /\ readyState'[s] = "open"
              /\ readyState[s] = "closed" => readyState'[s] = "closed"
              /\ Member(s, wsClients') => readyState'[s] \in {"open", "closing", "closed"} ]_vars

C25_Witness ==
    \E s, t \in Sessions :
        /\ "close" \in handled[s] /\ ~Member(s, wsClients)
        /\ Member(t, wsClients) /\ readyState[t] = "open"

----
(* The frames *)

HasWatchedExtension(path) ==
    /\ Len(path) >= 2
    /\ path[Len(path) - 1] = "."
    /\ toLowerCase(path[Len(path)]) \in WatchedExtensions

(* C26: every frame sent on a session is an object with exactly the
   fields type and files, where type is "full-reload" or "css-change" and
   files is a non-empty list of paths that each have a watched extension. *)
C26_FrameShape ==
    lastB.calls # <<>> =>
        /\ DOMAIN lastB.message = {"type", "files"}
        /\ lastB.message.type \in {"full-reload", "css-change"}
        /\ lastB.message.files # <<>>
        /\ \A i \in 1..Len(lastB.message.files) :
              HasWatchedExtension(lastB.message.files[i])

C26_Witness ==
    /\ lastB.calls = <<1>>
    /\ lastB.message = [type |-> "css-change", files |-> <<PCss2>>]

----
(* The stylesheets of the page *)

(* The links for the stylesheet s.css in the document *)
LinksFor(d, name) == Matching(d.links, << <<"/">> \o name >>)

(* C27: for any sequence of css-change messages, also when one arrives
   before the replacement made for the one before has loaded, an old link
   is removed only when the load or error event of its replacement fires,
   and the document is never without a link for a matched stylesheet. *)
C27_NeverUnstyled ==
    [][ (dom' # LoadedPage) =>
          /\ \A i \in 1..Len(dom.links) :
                (\A j \in 1..Len(dom'.links) : dom'.links[j].id # dom.links[i].id)
                    => \E l \in dom.listeners :
                          l.old = dom.links[i].id /\ l \notin dom'.listeners
          /\ LinksFor(dom', <<"s", ".", "css">>) # <<>>
          /\ LinksFor(dom', <<"o", ".", "css">>) # <<>> ]_vars

C27_Witness ==
    /\ Len(LinksFor(dom, <<"s", ".", "css">>)) = 4
    /\ Cardinality(dom.listeners) = 3

----
(* The status of the log line *)

(* C28: the text is green for 200 <= s < 300, yellow for 300 <= s < 400,
   red for 400 <= s < 500 and bold red for every other status; the four
   styles differ, every status has one, and the text holds the status in
   brackets. *)
C28_StatusBuckets ==
    call.fn = "getColoredStatusText" =>
        LET s == call.arg
            text == <<"[">> \o Digits(s) \o <<"]">>
            styles == << green(text), yellow(text), red(text), bold(red(text)) >>
            bucket == CASE 200 <= s /\ s < 300 -> 1
                        [] 300 <= s /\ s < 400 -> 2
                        [] 400 <= s /\ s < 500 -> 3
                        [] s >= 500 \/ s < 200 -> 4
        IN  /\ call.out = styles[bucket]
            /\ \A i \in 1..4 : i # bucket => call.out # styles[i]
            /\ Includes(call.out, text)

C28_Witness ==
    /\ call.fn = "getColoredStatusText"
    /\ call.arg = 200
    /\ call.out = <<"ESC[32m", "[", "2", "0", "0", "]", "ESC[39m">>

----
(* The options *)

(* C29: parse([]) returns the current working directory as dir, host
   "localhost", port 5327 as a number, watch true, and cors "*". *)
C29_Defaults ==
    (call.fn = "parse" /\ call.arg = <<>>) =>
        /\ call.out.exit = 0
        /\ call.out.dir = cwd
        /\ call.out.host = "localhost"
        /\ call.out.port = 5327
        /\ call.out.watch = True
        /\ call.out.cors = Str("*")

Passed(option) == call.fn = "parse" /\ option \in Range(call.arg)

(* C30: when several options are passed together each field has the value
   of its own option: --dir D gives dir = D, --host H host = H, --port P
   port = P as a number, --no-watch watch = false, --cors O cors = O, and
   the value after --cors does not become the directory. *)
C30_OwnValues ==
    (call.fn = "parse" /\ ~Passed(<<"-p", "70000">>)) =>
        /\ call.out.exit = 0
        /\ (Passed(<<"--dir", "/tmp">>) /\ ~Passed(<<"/my/custom/dir">>))
              => call.out.dir = "/tmp"
        /\ Passed(<<"--host", "0.0.0.0">>) => call.out.host = "0.0.0.0"
        /\ Passed(<<"--port", "8080">>) => call.out.port = 8080
        /\ Passed(<<"--no-watch">>) => call.out.watch = False
        /\ Passed(<<"--cors", "https://example.com">>)
              => /\ call.out.cors = Str("https://example.com")
                 /\ call.out.dir # "https://example.com"

(* The interrupt has been delivered; the process has ended. *)
Interrupted == signalChan \/ exitPc # "wait"

Terminated == mainPc = "exit" \/ panicked

(* C31: a restart request typed while an instance is serving is followed
   by the serving of a later instance, unless the interrupt comes or the
   process ends, and the loop does not break on the value a restart
   sends. *)
C31_RestartServes ==
    /\ \A k \in 1..(MaxLines + 1) :
         (k \in asked) ~> (\/ Interrupted \/ Terminated
                           \/ (mainPc = "serving" /\ server > k))
    /\ [][ (mainPc = "isDone" /\ restart # <<>> /\ Head(restart).value
            /\ mainPc' # mainPc) => mainPc' = "serve" ]_vars

(* C32: once the interrupt is delivered the process ends, whatever the
   restart goroutine does meanwhile. *)
C32_InterruptTerminates == Interrupted ~> Terminated

----
(* Directories *)

(* The request passes the check of serveStatic and its canonical target is
   a directory that can be searched. *)
GuardedDirectory ==
    /\ Canonicalizes
    /\ ~Blocked(PathString(CanonicalTarget(req)), PathString(realPath(dir, fsIndex).path),
                dir \o DecodedPath)
    /\ FsNode(CanonicalTarget(req), fsIndex).kind = "dir"
    /\ ~Locked(CanonicalTarget(req), fsIndex)

(* The entry index.html of the directory the request resolves to *)
IndexEntry == Append(CanonicalTarget(req), SegIndex)

(* C33: when the index.html of a requested directory is a symbolic link
   whose canonical path lies outside the served root, the response is a
   403 and is built from no entry. *)
C33_IndexContained ==
    (/\ GuardedDirectory
     /\ FsNode(IndexEntry, fsIndex).kind = "link"
     /\ ~Within(FsNode(IndexEntry, fsIndex).target))
    => (resp.status = 403 /\ resp.entry = <<>>)

(* C36: a request that resolves to a directory is answered with the
   directory's index.html as a file when that entry is a readable file,
   and with a 200 listing of the directory when there is no such entry; it
   is never answered 404, with or without a "/" at the end of the path. *)
C36_DirectoryResponse ==
    GuardedDirectory =>
        /\ FsNode(IndexEntry, fsIndex).kind = "file" =>
             /\ resp.status = 200 /\ resp.kind = "file"
             /\ resp.entry = <<IndexEntry>>
        /\ FsNode(IndexEntry, fsIndex).kind = "absent" =>
             /\ resp.status = 200 /\ resp.kind = "listing"
             /\ resp.entry = <<CanonicalTarget(req)>>
             /\ resp.body.arg = DecodedPath
        /\ resp.status # 404

C36_Witness ==
    /\ GuardedDirectory
    /\ req = <<"/", "d">>
    /\ fsIndex = "none"
    /\ resp.status = 200 /\ resp.kind = "listing"

----
(* C34: a broadcast calls send on no session of the set whose readyState
   is not OPEN, and every such session is out of the set when the
   broadcast returns. *)
C34_OnlyOpenSent ==
    [][ BroadcastStep =>
          \A s \in Range(wsClients) :
              readyState[s] # "open" =>
                  /\ s \notin Range(lastB'.calls)
                  /\ s \notin Range(wsClients') ]_vars

(* A broadcast has sent to one session and dropped another, which was
   closing or closed with its close event not yet handled. *)
C34_Witness ==
    /\ lastB.calls # <<>>
    /\ \E s \in Sessions :
          /\ readyState[s] \in {"closing", "closed"}
          /\ "close" \notin handled[s]
          /\ s \notin Range(wsClients)
          /\ s \notin Range(lastB.calls)

----
(* The events the watcher passes over *)

(* The step is a turn of the loop of startFileWatcher that goes on. *)
YieldStep ==
    /\ wpc = "watching" /\ wpc' = "watching"
    /\ fsQueue # <<>> /\ fsQueue' = Tail(fsQueue)

(* The paths of the event that have a watched extension, in their order *)
WatchedPaths(e) == SelectSeq(e.paths, HasWatchedExtension)

(* C35: an event that is neither a create nor a modify, or that has no
   path with a watched extension, leaves the timers as they are; a
   qualifying event arms a timer that holds its paths with a watched
   extension and no other; and the files of every message are those of a
   timer that such an event armed. *)
C35_EventFilter ==
    [][ /\ YieldStep =>
            LET e == Head(fsQueue)
            IN  IF e.kind \in {"create", "modify"} /\ WatchedPaths(e) # <<>>
                THEN \E t \in timers' :
                        /\ t.id = debounceTimer'
                        /\ t.files = WatchedPaths(e)
                        /\ timers' \ {t} \subseteq timers
                ELSE timers' = timers /\ debounceTimer' = debounceTimer
        /\ ~YieldStep => timers' \subseteq timers
        /\ BroadcastStep =>
            \E t \in timers : lastB'.message.files = t.files ]_vars

(* A timer armed by an event with a watched and an unwatched path holds
   the watched one alone, and an event of another kind waits in the queue. *)
C35_Witness ==
    /\ \E t \in timers : t.files = <<PCss2>> /\ t.id = debounceTimer
    /\ fsQueue # <<>> /\ Head(fsQueue).kind = "remove"

----
(* C40: at most one timer is pending, and it is the one debounceTimer
   names; the timer that expires is that one, and no timer is pending once
   it has expired, so that a superseded timer never runs and one burst has
   one expiry. *)
C40_OneTimer ==
    [][ /\ Cardinality(timers') <= 1
        /\ \A t \in timers' : t.id = debounceTimer'
        /\ BroadcastStep =>
              /\ timers' = {}
              /\ \E t \in timers :
                    t.id = debounceTimer /\ lastB'.message.files = t.files ]_vars

(* The pending timer was armed by the second event of a burst: the burst
   holds a path that the timer does not. *)
C40_Witness ==
    /\ Cardinality(timers) = 1
    /\ \E t \in timers : t.id = debounceTimer /\ burst \ Range(t.files) # {}

----
(* C39: every static request is answered with one Response whose status is
   200, 403, 404 or 500, and serveStatic throws for none. *)
C39_AlwaysResponds ==
    req # <<>> => (resp.threw = "" /\ resp.status \in {200, 403, 404, 500})

----
(* C38: once shutdown() has run the set of sessions is empty in every
   state, whatever event is handled later, and shutdown() has called
   close() on each session that was in the set and open. *)
C38_EmptyAfterShutdown ==
    [][ /\ shutdownCalled' => wsClients' = <<>>
        /\ (~shutdownCalled /\ shutdownCalled') =>
              \A s \in Range(wsClients) :
                  readyState[s] = "open" => readyState'[s] = "closing" ]_vars

----
(* The path of a file without its extension *)
StripExtension(f) == SubSeq(f, 1, Len(f) - 2)

(* C37: what the resolver returns for a sub-path is nothing, or a file of
   the API directory whose path under it, without the extension, is the
   sub-path itself. *)
C37_ExactMatch ==
    apiReq # NoApiRequest =>
        /\ \A f \in Range(apiResp.file) :
              f \in ApiFiles(apiExports) /\ StripExtension(f) = apiReq.endpoint
        /\ \A f \in Range(apiFound.path) :
              f \in ApiFiles(apiExports) /\ StripExtension(f) = apiReq.endpoint

====
